---- MODULE Spec2Model ----
(***************************************************************************)
(* The API key fallback manager of Amble (agent/api_key_manager.py):       *)
(* per credential class an ordered pool of secrets, a round-robin cursor   *)
(* and a map of exhaustion timestamps with a one hour cooldown.            *)
(***************************************************************************)
EXTENDS Integers, Sequences, FiniteSets, TLC

\* Largest number of (class, secret) pairs the manager ever learns of: the secrets
\* the environment configures, over all classes, plus the secrets outside a pool
\* that callers mark.
MaxKeys == 3

\* The clock advances at most this many times.
MaxTicks == 1

\* Longest run of consecutive get_key calls on one class that is counted.
MaxStreak == 4

\* _load_keys is applied to environments that set at most this many numbered
\* variables BASE_1, BASE_2, ...
MaxNumbered == 3

\* ... and that draw their values from this many distinct secrets.
MaxValues == 2

\* self.cooldown_period, in seconds.
cooldown_period == 3600

\* Python's None: get_key's "none available" result. Secrets are 1, 2, ...
None == 0

\* The credential classes APIKeyManager knows.
Classes == {"google", "anam", "elevenlabs"}

\* What a caller may pass as key_type to get_key and mark_exhausted: a known class
\* or another string.
KeyTypes == Classes \cup {"other"}

\* A secret that is in no configured pool.
Foreign == MaxKeys + 1

\* The free-text reasons the call sites pass to mark_exhausted.
Reasons == {"quota_exceeded", "auth_error"}

\* How far one step of the clock moves it: exactly one cooldown, or just past it.
TickSteps == {cooldown_period, cooldown_period + 1}

VARIABLES
    google_keys,      \* self.google_keys: sequence of secrets
    anam_keys,        \* self.anam_keys
    elevenlabs_keys,  \* self.elevenlabs_keys
    exhausted_keys,   \* self.exhausted_keys[key_type]: secret -> timestamp (a
                      \* defaultdict: every key_type has a map, empty at first)
    current_indices,  \* self.current_indices[key_type]
    now,              \* time.time()
    last,             \* the last call on the manager: its arguments, what it returned,
                      \* get_key's start_index, and (prev) the time of the mark before
                      \* this one of the same secret, if any
    marked,           \* history: the time of the last mark_exhausted call per (class, secret)
    shadow_exhausted, \* a second manager that receives every call except marks of Foreign
    shadow_indices,
    shadow_ret,
    pure,             \* one application of _load_keys and of the two classifiers:
                      \* the inputs drawn, and the results once computed
    env_key,          \* os.environ["GOOGLE_API_KEY"]
    agent,            \* the run_agent call in progress (server.py)
    anam,             \* the get_anam_session call in progress (server.py)
    reqs,             \* the requests handled concurrently on the event loop
    chat,             \* the rate limiter of /chat: _last_request_time and the
                      \* /chat requests inside it
    store             \* _notifications_store

\* The state outside the manager: the callers in server.py and the pure functions.
callers == <<pure, env_key, agent, anam>>

\* The state of the concurrent requests, of the rate limiter and of the
\* notification endpoints.
extras == <<reqs, chat, store>>

\* The history variables of the manager.
history == <<last, marked, shadow_exhausted, shadow_indices, shadow_ret>>

vars == <<google_keys, anam_keys, elevenlabs_keys, exhausted_keys, current_indices,
          now, last, marked, shadow_exhausted, shadow_indices, shadow_ret,
          pure, env_key, agent, anam, reqs, chat, store>>

\* The pool _load_keys yields for n distinct configured values.
Pool(n) == [i \in 1..n |-> i]

\* The dispatch on key_type at the head of get_key (and in mark_exhausted, get_status).
KeysOf(key_type) ==
    IF key_type = "google" THEN google_keys
    ELSE IF key_type = "anam" THEN anam_keys
    ELSE IF key_type = "elevenlabs" THEN elevenlabs_keys
    ELSE << >>

\* A slip in _is_key_available: >= where the code has >.
KeyAvailableIn_Ge(exh, key_type, key, t) ==
    IF key \notin DOMAIN exh[key_type]
    THEN TRUE
    ELSE t - exh[key_type][key] >= cooldown_period

\* _is_key_available, against the exhaustion map exh at clock value t.
KeyAvailableIn(exh, key_type, key, t) ==
    IF key \notin DOMAIN exh[key_type]
    THEN TRUE
    ELSE t - exh[key_type][key] > cooldown_period

\* A slip in get_key's loop: the scan starts at slot 0 whatever the cursor.
RECURSIVE ScanLoop_FromZero(_, _, _, _, _)
ScanLoop_FromZero(exh, key_type, keys, start_index, i) ==
    IF i >= Len(keys)
    THEN [found |-> FALSE, index |-> start_index, key |-> None]
    ELSE LET index == i % Len(keys)
             key == keys[index + 1]
         IN  IF KeyAvailableIn(exh, key_type, key, now)
             THEN [found |-> TRUE, index |-> index, key |-> key]
             ELSE ScanLoop_FromZero(exh, key_type, keys, start_index, i + 1)

\* The for loop of get_key: slot i of the scan that began at start_index.
\* found = FALSE is the fall-through to "return None".
RECURSIVE ScanLoop(_, _, _, _, _)
ScanLoop(exh, key_type, keys, start_index, i) ==
    IF i >= Len(keys)
    THEN [found |-> FALSE, index |-> start_index, key |-> None]
    ELSE LET index == (start_index + i) % Len(keys)
             key == keys[index + 1]
         IN  IF KeyAvailableIn(exh, key_type, key, now)
             THEN [found |-> TRUE, index |-> index, key |-> key]
             ELSE ScanLoop(exh, key_type, keys, start_index, i + 1)

\* A slip in get_key: the cursor is left where it was on a hit.
GetKeyOn_NoAdvance(exh, idx, key_type) ==
    IF key_type \notin Classes \/ Len(KeysOf(key_type)) = 0
    THEN [ret |-> None, indices |-> idx]
    ELSE LET hit == ScanLoop(exh, key_type, KeysOf(key_type), idx[key_type], 0) IN
         [ret |-> hit.key, indices |-> idx]

\* A slip in get_key: the cursor is advanced without the modulo.
GetKeyOn_NoWrap(exh, idx, key_type) ==
    IF key_type \notin Classes \/ Len(KeysOf(key_type)) = 0
    THEN [ret |-> None, indices |-> idx]
    ELSE LET hit == ScanLoop(exh, key_type, KeysOf(key_type), idx[key_type], 0) IN
         IF hit.found
         THEN [ret |-> hit.key, indices |-> [idx EXCEPT ![key_type] = hit.index + 1]]
         ELSE [ret |-> None, indices |-> idx]

\* A slip in get_key: the cursor is reset when every key is exhausted.
GetKeyOn_ResetOnFail(exh, idx, key_type) ==
    IF key_type \notin Classes \/ Len(KeysOf(key_type)) = 0
    THEN [ret |-> None, indices |-> idx]
    ELSE LET keys == KeysOf(key_type)
             hit == ScanLoop(exh, key_type, keys, idx[key_type], 0) IN
         IF hit.found
         THEN [ret |-> hit.key,
               indices |-> [idx EXCEPT ![key_type] = (hit.index + 1) % Len(keys)]]
         ELSE [ret |-> None, indices |-> [idx EXCEPT ![key_type] = 0]]

\* get_key on a manager with exhaustion map exh and cursors idx:
\* the value returned and the cursors afterwards.
GetKeyOn(exh, idx, key_type) ==
    IF key_type \notin Classes
    THEN [ret |-> None, indices |-> idx]
    ELSE LET keys == KeysOf(key_type) IN
         IF Len(keys) = 0
         THEN [ret |-> None, indices |-> idx]
         ELSE LET hit == ScanLoop(exh, key_type, keys, idx[key_type], 0) IN
              IF hit.found
              THEN [ret |-> hit.key,
                    indices |-> [idx EXCEPT ![key_type] = (hit.index + 1) % Len(keys)]]
              ELSE [ret |-> None, indices |-> idx]

\* A slip in mark_exhausted: an existing record is kept (dict.setdefault).
MarkOn_KeepOld(exh, key_type, key) ==
    [exh EXCEPT ![key_type] = @ @@ (key :> now)]

\* mark_exhausted's write: self.exhausted_keys[key_type][key] = time.time()
MarkOn(exh, key_type, key) ==
    [exh EXCEPT ![key_type] = (key :> now) @@ @]

\* A slip in key_status: >= where the code has >.
RECURSIVE KeyStatusLoop_Ge(_, _, _, _, _)
KeyStatusLoop_Ge(exh, key_type, keys, i, acc) ==
    IF i > Len(keys)
    THEN acc
    ELSE LET key == keys[i] IN
         IF key \notin DOMAIN exh[key_type]
         THEN KeyStatusLoop_Ge(exh, key_type, keys, i + 1,
                               [acc EXCEPT !.available = @ + 1])
         ELSE IF now - exh[key_type][key] >= cooldown_period
              THEN KeyStatusLoop_Ge(exh, key_type, keys, i + 1,
                                    [acc EXCEPT !.available = @ + 1])
              ELSE KeyStatusLoop_Ge(exh, key_type, keys, i + 1,
                                    [acc EXCEPT !.cooling_down = @ + 1])

\* key_status inside get_status: the loop over keys, from position i on.
RECURSIVE KeyStatusLoop(_, _, _, _, _)
KeyStatusLoop(exh, key_type, keys, i, acc) ==
    IF i > Len(keys)
    THEN acc
    ELSE LET key == keys[i] IN
         IF key \notin DOMAIN exh[key_type]
         THEN KeyStatusLoop(exh, key_type, keys, i + 1,
                            [acc EXCEPT !.available = @ + 1])
         ELSE IF now - exh[key_type][key] > cooldown_period
              THEN KeyStatusLoop(exh, key_type, keys, i + 1,
                                 [acc EXCEPT !.available = @ + 1])
              ELSE KeyStatusLoop(exh, key_type, keys, i + 1,
                                 [acc EXCEPT !.cooling_down = @ + 1])

\* A slip in key_status: the counts run over the records of the class instead of
\* over its pool.
key_status_OverRecords(exh, key_type, keys) ==
    LET cooling == {k \in DOMAIN exh[key_type] : now - exh[key_type][k] <= cooldown_period}
    IN  [total |-> Len(keys), available |-> Len(keys) - Cardinality(cooling),
         cooling_down |-> Cardinality(cooling), exhausted |-> 0]

\* A slip in key_status: a secret in cooldown is counted as exhausted as well.
key_status_CountsExhausted(exh, key_type, keys) ==
    LET status == KeyStatusLoop(exh, key_type, keys, 1,
                      [total |-> Len(keys), available |-> 0, cooling_down |-> 0,
                       exhausted |-> 0])
    IN  [status EXCEPT !.exhausted = status.cooling_down]

\* key_status(key_type, keys) of get_status.
key_status(exh, key_type, keys) ==
    KeyStatusLoop(exh, key_type, keys, 1,
                  [total |-> Len(keys), available |-> 0, cooling_down |-> 0, exhausted |-> 0])

\* The dictionary get_status returns.
StatusOn(exh) == [c \in Classes |-> key_status(exh, c, KeysOf(c))]

\* The secrets of a class's pool.
PoolSet(key_type) == {KeysOf(key_type)[i] : i \in 1..Len(KeysOf(key_type))}

\* True when every key of the class's pool is available now.
AllAvailable(key_type) ==
    \A k \in PoolSet(key_type) : KeyAvailableIn(exhausted_keys, key_type, k, now)

NoCall ==
    [op |-> "none", key_type |-> "none", key |-> None, ret |-> None,
     start_index |-> 0, nth |-> 0, prev |-> {}]

\* APIKeyManager.__init__: the pools as loaded, no exhaustion record, every cursor
\* at 0. The environments drawn are those with google >= anam >= elevenlabs in
\* pool size.
Init ==
    /\ \E g, a, e \in 0..MaxKeys :
          /\ g + a + e <= MaxKeys
          /\ g >= a /\ a >= e
          /\ google_keys = Pool(g)
          /\ anam_keys = Pool(a)
          /\ elevenlabs_keys = Pool(e)
    /\ exhausted_keys = [c \in KeyTypes |-> << >>]
    /\ current_indices = [c \in Classes |-> 0]
    /\ now = 0
    /\ last = NoCall
    /\ marked = [c \in KeyTypes |-> << >>]
    /\ shadow_exhausted = [c \in KeyTypes |-> << >>]
    /\ shadow_indices = [c \in Classes |-> 0]
    /\ shadow_ret = None
    /\ pure = [pc |-> "off"]
    /\ env_key = None
    /\ agent = [pc |-> "off"]
    /\ anam = [pc |-> "off"]
    /\ reqs = [pc |-> "off"]
    /\ chat = [pc |-> "off"]
    /\ store = [pc |-> "off"]

\* The position of this get_key call in a run of consecutive get_key calls on
\* key_type that began with the cursor at 0 and every key available; 0 outside
\* such a run.
NthOf(key_type) ==
    IF /\ last.op = "get_key" /\ last.key_type = key_type
       /\ last.nth >= 1 /\ last.nth < MaxStreak
    THEN last.nth + 1
    ELSE IF /\ key_type \in Classes /\ Len(KeysOf(key_type)) > 0
            /\ current_indices[key_type] = 0 /\ AllAvailable(key_type)
         THEN 1
         ELSE 0

\* get_key(key_type)
GetKey(key_type) ==
    LET r == GetKeyOn(exhausted_keys, current_indices, key_type)
        s == GetKeyOn(shadow_exhausted, shadow_indices, key_type)
    IN  /\ current_indices' = r.indices
        /\ last' = [op |-> "get_key", key_type |-> key_type, key |-> None, ret |-> r.ret,
                    start_index |-> IF key_type \in Classes
                                    THEN current_indices[key_type] ELSE 0,
                    nth |-> NthOf(key_type), prev |-> {}]
        /\ shadow_indices' = s.indices
        /\ shadow_ret' = s.ret
        /\ UNCHANGED <<google_keys, anam_keys, elevenlabs_keys, exhausted_keys, now,
                       marked, shadow_exhausted, callers, extras>>

\* What every mark_exhausted call leaves behind besides the manager's own state.
MarkTrace(key_type, key) ==
    /\ last' = [op |-> "mark_exhausted", key_type |-> key_type, key |-> key, ret |-> None,
                start_index |-> 0, nth |-> 0,
                prev |-> IF key \in DOMAIN marked[key_type]
                         THEN {marked[key_type][key]} ELSE {}]
    /\ marked' = [marked EXCEPT ![key_type] = (key :> now) @@ @]
    /\ shadow_ret' = None
    /\ UNCHANGED <<google_keys, anam_keys, elevenlabs_keys, current_indices, now,
                   shadow_indices, callers, extras>>

\* A slip in mark_exhausted: only a quota failure writes the record.
MarkExhausted_QuotaOnly(key_type, key, reason) ==
    /\ exhausted_keys' = IF reason = "quota_exceeded"
                         THEN MarkOn(exhausted_keys, key_type, key)
                         ELSE exhausted_keys
    /\ shadow_exhausted' = IF key = Foreign \/ reason # "quota_exceeded"
                           THEN shadow_exhausted
                           ELSE MarkOn(shadow_exhausted, key_type, key)
    /\ MarkTrace(key_type, key)

\* mark_exhausted(key_type, key, reason)
MarkExhausted(key_type, key, reason) ==
    /\ exhausted_keys' = MarkOn(exhausted_keys, key_type, key)
    /\ shadow_exhausted' = IF key = Foreign THEN shadow_exhausted
                           ELSE MarkOn(shadow_exhausted, key_type, key)
    /\ MarkTrace(key_type, key)

\* What every get_status call leaves behind besides the manager's own state.
StatusTrace ==
    /\ last' = [op |-> "get_status", key_type |-> "none", key |-> None,
                ret |-> StatusOn(exhausted_keys), start_index |-> 0, nth |-> 0,
                prev |-> {}]
    /\ shadow_ret' = StatusOn(shadow_exhausted)
    /\ UNCHANGED <<google_keys, anam_keys, elevenlabs_keys, current_indices, now,
                   marked, shadow_exhausted, shadow_indices, callers, extras>>

\* A get_status that sweeps the records whose cooldown has elapsed.
GetStatus_Sweep ==
    /\ exhausted_keys' =
          [c \in KeyTypes |->
              [k \in {x \in DOMAIN exhausted_keys[c] :
                         now - exhausted_keys[c][x] <= cooldown_period}
                 |-> exhausted_keys[c][k]]]
    /\ StatusTrace

\* get_status()
GetStatus ==
    /\ UNCHANGED exhausted_keys
    /\ StatusTrace

\* Time passes between two calls.
Tick(d) ==
    /\ now + d <= MaxTicks * (cooldown_period + 1)
    /\ now' = now + d
    /\ last' = NoCall
    /\ shadow_ret' = None
    /\ UNCHANGED <<google_keys, anam_keys, elevenlabs_keys, exhausted_keys,
                   current_indices, marked, shadow_exhausted, shadow_indices, callers, extras>>

\* The (class, secret) pairs the manager knows: configured, or marked from outside.
Known ==
    {p \in KeyTypes \X (1..Foreign) :
        p[2] \in PoolSet(p[1]) \/ p[2] \in DOMAIN exhausted_keys[p[1]]}

\* The secrets a caller passes to mark_exhausted for a class: those of the pool,
\* and one that is not in it.
Markable(key_type) ==
    PoolSet(key_type) \cup
    {k \in {Foreign} : Cardinality(Known \cup {<<key_type, k>>}) <= MaxKeys}

Next ==
    \/ \E key_type \in KeyTypes : GetKey(key_type)
    \/ \E key_type \in KeyTypes : \E key \in Markable(key_type) : \E reason \in Reasons :
          MarkExhausted(key_type, key, reason)
    \/ GetStatus
    \/ \E d \in TickSteps : Tick(d)

Spec == Init /\ [][Next]_vars

(***************************************************************************)
(* Text. A Python str is the sequence of its characters.                   *)
(***************************************************************************)

UpperChars ==
    <<"A", "B", "C", "D", "E", "F", "G", "H", "I", "J", "K", "L", "M", "N", "O",
      "P", "Q", "R", "S", "T", "U", "V", "W", "X", "Y", "Z">>

LowerChars ==
    <<"a", "b", "c", "d", "e", "f", "g", "h", "i", "j", "k", "l", "m", "n", "o",
      "p", "q", "r", "s", "t", "u", "v", "w", "x", "y", "z">>

\* A slip in the classifiers: the text is matched as it is, not lowercased.
lower_Identity(text) == text

\* str.lower()
lower(text) ==
    [i \in 1..Len(text) |->
        IF \E j \in 1..Len(UpperChars) : UpperChars[j] = text[i]
        THEN LowerChars[CHOOSE j \in 1..Len(UpperChars) : UpperChars[j] = text[i]]
        ELSE text[i]]

\* pattern in text
Contains(text, pattern) ==
    \E i \in 0..(Len(text) - Len(pattern)) : SubSeq(text, i + 1, i + Len(pattern)) = pattern

\* error_patterns of is_quota_error
error_patterns ==
    <<
      <<"q", "u", "o", "t", "a", " ", "e", "x", "c", "e", "e", "d", "e", "d">>,
      <<"r", "a", "t", "e", " ", "l", "i", "m", "i", "t", " ", "e", "x", "c", "e",
        "e", "d", "e", "d">>,
      <<"t", "o", "o", " ", "m", "a", "n", "y", " ", "r", "e", "q", "u", "e", "s",
        "t", "s">>,
      <<"r", "e", "s", "o", "u", "r", "c", "e", " ", "e", "x", "h", "a", "u", "s",
        "t", "e", "d">>,
      <<"d", "a", "i", "l", "y", " ", "l", "i", "m", "i", "t", " ", "e", "x", "c",
        "e", "e", "d", "e", "d">>,
      <<"m", "o", "n", "t", "h", "l", "y", " ", "l", "i", "m", "i", "t", " ", "e",
        "x", "c", "e", "e", "d", "e", "d">>,
      <<"4", "2", "9">>,
      <<"l", "i", "m", "i", "t", " ", "e", "x", "c", "e", "e", "d", "e", "d">>,
      <<"u", "s", "a", "g", "e", " ", "l", "i", "m", "i", "t">>,
      <<"b", "i", "l", "l", "i", "n", "g">>
    >>

\* auth_patterns of is_auth_error
auth_patterns ==
    <<
      <<"i", "n", "v", "a", "l", "i", "d", " ", "a", "p", "i", " ", "k", "e", "y">>,
      <<"a", "u", "t", "h", "e", "n", "t", "i", "c", "a", "t", "i", "o", "n", " ",
        "f", "a", "i", "l", "e", "d">>,
      <<"u", "n", "a", "u", "t", "h", "o", "r", "i", "z", "e", "d">>,
      <<"4", "0", "1">>,
      <<"4", "0", "3">>,
      <<"a", "p", "i", " ", "k", "e", "y", " ", "n", "o", "t", " ", "v", "a", "l",
        "i", "d">>,
      <<"i", "n", "v", "a", "l", "i", "d", " ", "k", "e", "y">>
    >>

\* is_quota_error, applied to str(exception)
is_quota_error(text) ==
    \E i \in 1..Len(error_patterns) : Contains(lower(text), error_patterns[i])

\* is_auth_error, applied to str(exception)
is_auth_error(text) ==
    \E i \in 1..Len(auth_patterns) : Contains(lower(text), auth_patterns[i])

\* "429 Too Many Requests"
Msg429 ==
    <<"4", "2", "9", " ", "T", "o", "o", " ", "M", "a", "n", "y", " ", "R", "e",
      "q", "u", "e", "s", "t", "s">>

\* "RESOURCE_EXHAUSTED: quota exceeded"
MsgResourceExhausted ==
    <<"R", "E", "S", "O", "U", "R", "C", "E", "_", "E", "X", "H", "A", "U", "S",
      "T", "E", "D", ":", " ", "q", "u", "o", "t", "a", " ", "e", "x", "c", "e",
      "e", "d", "e", "d">>

\* "401 Unauthorized"
Msg401 ==
    <<"4", "0", "1", " ", "U", "n", "a", "u", "t", "h", "o", "r", "i", "z", "e",
      "d">>

\* "Invalid API key provided"
MsgInvalidKey ==
    <<"I", "n", "v", "a", "l", "i", "d", " ", "A", "P", "I", " ", "k", "e", "y",
      " ", "p", "r", "o", "v", "i", "d", "e", "d">>

\* "connection refused"
MsgConnectionRefused ==
    <<"c", "o", "n", "n", "e", "c", "t", "i", "o", "n", " ", "r", "e", "f", "u",
      "s", "e", "d">>

\* "Request timed out"
MsgTimeout ==
    <<"R", "e", "q", "u", "e", "s", "t", " ", "t", "i", "m", "e", "d", " ", "o",
      "u", "t">>

\* The texts of the failures a remote call raises.
Messages ==
    {Msg429, MsgResourceExhausted, Msg401, MsgInvalidKey, MsgConnectionRefused, MsgTimeout}

(***************************************************************************)
(* _load_keys. An environment is the value of BASE and the values of       *)
(* BASE_1, BASE_2, ...; None stands for a variable that is unset or empty. *)
(***************************************************************************)

\* os.getenv(f"{base_name}_{i}")
GetNumbered(env, i) == IF i <= Len(env.numbered) THEN env.numbered[i] ELSE None

\* The while loop of _load_keys: the numbered variables, up to the first unset one.
RECURSIVE NumberedLoop(_, _, _)
NumberedLoop(env, i, keys) ==
    IF GetNumbered(env, i) # None
    THEN NumberedLoop(env, i + 1, Append(keys, GetNumbered(env, i)))
    ELSE keys

\* A slip in _load_keys: the duplicates are not removed.
RECURSIVE UniqueLoop_KeepAll(_, _, _)
UniqueLoop_KeepAll(keys, i, unique_keys) ==
    IF i > Len(keys)
    THEN unique_keys
    ELSE UniqueLoop_KeepAll(keys, i + 1, Append(unique_keys, keys[i]))

\* The for loop of _load_keys that removes duplicates; seen is the set of the
\* elements of unique_keys.
RECURSIVE UniqueLoop(_, _, _)
UniqueLoop(keys, i, unique_keys) ==
    IF i > Len(keys)
    THEN unique_keys
    ELSE IF keys[i] \notin {unique_keys[j] : j \in 1..Len(unique_keys)}
         THEN UniqueLoop(keys, i + 1, Append(unique_keys, keys[i]))
         ELSE UniqueLoop(keys, i + 1, unique_keys)

\* _load_keys(base_name), on the environment env
load_keys(env) ==
    LET single == IF env.base # None THEN <<env.base>> ELSE << >>
        keys == NumberedLoop(env, 1, single)
    IN  UniqueLoop(keys, 1, << >>)

\* The environments _load_keys is applied to.
Envs ==
    {[base |-> b, numbered |-> nums] :
        b \in 0..MaxValues,
        nums \in UNION {[1..n -> 0..MaxValues] : n \in 0..MaxNumbered}}

\* No request in progress at a call site, and none to come.
Off == [pc |-> "off"]

\* The pure functions are applied to inputs drawn at the start.
InitPure ==
    /\ \E env \in Envs : \E msg \in Messages :
          pure = [env |-> env, loaded |-> FALSE, keys |-> << >>,
                  msg |-> msg, classified |-> FALSE, quota |-> FALSE, auth |-> FALSE]
    /\ google_keys = << >> /\ anam_keys = << >> /\ elevenlabs_keys = << >>
    /\ exhausted_keys = [c \in KeyTypes |-> << >>]
    /\ current_indices = [c \in Classes |-> 0]
    /\ now = 0
    /\ last = NoCall
    /\ marked = [c \in KeyTypes |-> << >>]
    /\ shadow_exhausted = [c \in KeyTypes |-> << >>]
    /\ shadow_indices = [c \in Classes |-> 0]
    /\ shadow_ret = None
    /\ env_key = None
    /\ agent = Off
    /\ anam = Off
    /\ reqs = Off
    /\ chat = Off
    /\ store = Off

\* self._load_keys(base_name)
LoadKeys ==
    /\ ~pure.loaded
    /\ pure' = [pure EXCEPT !.loaded = TRUE, !.keys = load_keys(pure.env)]
    /\ UNCHANGED <<google_keys, anam_keys, elevenlabs_keys, exhausted_keys,
                   current_indices, now, history, extras, env_key, agent, anam>>

\* is_quota_error(e) and is_auth_error(e) on one exception
Classify ==
    /\ ~pure.classified
    /\ pure' = [pure EXCEPT !.classified = TRUE,
                            !.quota = is_quota_error(pure.msg),
                            !.auth = is_auth_error(pure.msg)]
    /\ UNCHANGED <<google_keys, anam_keys, elevenlabs_keys, exhausted_keys,
                   current_indices, now, history, extras, env_key, agent, anam>>

NextPure == LoadKeys \/ Classify

SpecPure == InitPure /\ [][NextPure]_vars

(***************************************************************************)
(* The properties.                                                         *)
(***************************************************************************)

\* The definition of "available" of the data model: no record, or a record whose
\* age exceeds the cooldown.
Available(c, k) ==
    \/ k \notin DOMAIN exhausted_keys[c]
    \/ now - exhausted_keys[c][k] > cooldown_period

AvailableSet(c) == {k \in PoolSet(c) : Available(c, k)}

Count(c) == Len(KeysOf(c))

\* The 0-based position of secret k in the pool of class c.
IndexOf(c, k) == (CHOOSE i \in 1..Count(c) : KeysOf(c)[i] = k) - 1

\* The key of class c at the 0-based slot i, taken modulo the pool size.
KeyAt(c, i) == KeysOf(c)[(i % Count(c)) + 1]

\* C1: get_key(class) returns only a secret of the class's pool that is available
\* at call time, and returns None exactly when the pool is empty or holds no
\* available secret.
C1_GetKeyReturnsAvailable ==
    last.op = "get_key" =>
        /\ last.ret # None => last.ret \in AvailableSet(last.key_type)
        /\ last.ret = None <=> AvailableSet(last.key_type) = {}

\* get_key returned a secret whose record has cooled down while another secret of
\* the pool is still cooling down.
C1_Witness ==
    /\ last.op = "get_key"
    /\ last.ret # None
    /\ last.ret \in DOMAIN exhausted_keys[last.key_type]
    /\ AvailableSet(last.key_type) # PoolSet(last.key_type)

\* C2: in a run of consecutive get_key calls on a class that starts with the
\* cursor at 0 and all n keys available, the k-th call returns keys[(k-1) mod n]
\* (for n = 3: the three keys in list order, then the first key again).
C2_RoundRobin ==
    (last.op = "get_key" /\ last.nth >= 1) =>
        last.ret = KeyAt(last.key_type, last.nth - 1)

\* The fourth call of such a run on a pool of three wrapped round to the first key.
C2_Witness ==
    /\ last.op = "get_key"
    /\ Count(last.key_type) = 3
    /\ last.nth = 4
    /\ last.ret = KeysOf(last.key_type)[1]

\* The distance, in slots of the cyclic scan, from the cursor of class c to secret k.
Dist(c, k) == (IndexOf(c, k) - current_indices[c]) % Count(c)

\* Secret k of class c was never marked, or the clock has passed the cooldown of
\* its last mark.
CooledDown(c, k) ==
    k \in DOMAIN marked[c] => now > marked[c][k] + cooldown_period

\* C3, first half, about the state after a get_key call: a secret whose last mark
\* is at most 3600 s old is not returned, and None is returned only when every
\* secret of the pool is that recently marked.
C3_State ==
    last.op = "get_key" =>
        LET c == last.key_type IN
        /\ last.ret # None => CooledDown(c, last.ret)
        /\ last.ret = None => \A k \in PoolSet(c) : ~CooledDown(c, k)

\* C3, second half, about one step: while k is past its cooldown, a get_key call on
\* its class returns k or brings the cursor strictly nearer to k, and no other step
\* moves the cursor away from k; the distance is below count, so k is returned
\* within count calls.
C3_Step ==
    \A c \in Classes : \A k \in PoolSet(c) :
        CooledDown(c, k) =>
            IF last'.op = "get_key" /\ last'.key_type = c
            THEN last'.ret = k \/ Dist(c, k)' < Dist(c, k)
            ELSE Dist(c, k)' = Dist(c, k)

\* C3: after mark_exhausted(class, k) at time t no get_key(class) call at a time
\* in [t, t + 3600] returns k (it returns another available key if there is one),
\* and once the clock has passed t + 3600 with no new mark, k is selectable again
\* and get_key returns it within at most count calls.
C3_CooldownExpiry == [](C3_State) /\ [][C3_Step]_vars

\* A secret marked at time 0 is returned by get_key once the clock shows 3601,
\* from a pool whose other secrets are still cooling down at that moment.
C3_Witness ==
    /\ last.op = "get_key"
    /\ last.ret # None
    /\ last.ret \in DOMAIN marked[last.key_type]
    /\ marked[last.key_type][last.ret] + cooldown_period + 1 = now
    /\ Count(last.key_type) >= 2
    /\ \A k \in PoolSet(last.key_type) \ {last.ret} : ~CooledDown(last.key_type, k)

\* Every secret of class c has been marked, each mark within the cooldown window.
AllMarked(c) ==
    \A k \in PoolSet(c) : k \in DOMAIN marked[c] /\ now - marked[c][k] <= cooldown_period

\* C4: when every key of a class has been marked within the cooldown window,
\* get_key on the class returns None and get_status reports available = 0 for it.
C4_AllExhausted ==
    \A c \in Classes :
        AllMarked(c) =>
            /\ (last.op = "get_key" /\ last.key_type = c) => last.ret = None
            /\ last.op = "get_status" => last.ret[c].available = 0

\* get_status is called exactly one cooldown after both keys of a pool were marked.
C4_Witness ==
    /\ last.op = "get_status"
    /\ now = cooldown_period
    /\ \E c \in Classes :
          /\ Count(c) >= 2
          /\ AllMarked(c)
          /\ last.ret[c].available = 0
          /\ last.ret[c].cooling_down = Count(c)

\* C5: the cursor of every class is in [0, count) for a non-empty pool and 0 for
\* an empty one.
C5_CursorInRange ==
    \A c \in Classes :
        IF Count(c) = 0
        THEN current_indices[c] = 0
        ELSE current_indices[c] \in 0..(Count(c) - 1)

\* A get_key call returned the last key of a pool of three and wrapped the cursor
\* to 0.
C5_Witness ==
    /\ last.op = "get_key"
    /\ Count(last.key_type) = 3
    /\ last.ret = KeysOf(last.key_type)[3]
    /\ current_indices[last.key_type] = 0

\* The offsets i in 0..count-1 at which the cyclic scan from start meets an
\* available secret of class c.
Hits(c, start) == {i \in 0..(Count(c) - 1) : Available(c, KeyAt(c, start + i))}

Least(S) == CHOOSE i \in S : \A j \in S : i <= j

\* C6: get_key returns the first available secret in cyclic order from the cursor
\* (none within count slots: None) and sets the cursor to (found_index + 1) mod
\* count.
C6_FirstAvailable ==
    (last.op = "get_key" /\ last.key_type \in Classes /\ Count(last.key_type) > 0) =>
        LET c == last.key_type
            start == last.start_index
        IN  IF Hits(c, start) = {}
            THEN last.ret = None /\ current_indices[c] = start
            ELSE LET found_index == (start + Least(Hits(c, start))) % Count(c) IN
                 /\ last.ret = KeysOf(c)[found_index + 1]
                 /\ current_indices[c] = (found_index + 1) % Count(c)

\* A scan that started at the last slot of a pool of three, found it cooling down,
\* wrapped, and returned the first key.
C6_Witness ==
    /\ last.op = "get_key"
    /\ Count(last.key_type) = 3
    /\ last.start_index = 2
    /\ ~Available(last.key_type, KeysOf(last.key_type)[3])
    /\ last.ret = KeysOf(last.key_type)[1]
    /\ current_indices[last.key_type] = 1

\* C7: a cursor changes only in a get_key call on its class that returns a
\* secret; a get_key call that returns None, every mark_exhausted call and every
\* get_status call leave all cursors unchanged.
C7_CursorFrame ==
    [][\A c \in Classes :
          current_indices'[c] # current_indices[c] =>
              last'.op = "get_key" /\ last'.key_type = c /\ last'.ret # None]_vars

\* get_key returned None on a non-empty pool whose cursor is not at 0.
C7_Witness ==
    /\ last.op = "get_key"
    /\ last.ret = None
    /\ last.key_type \in Classes
    /\ Count(last.key_type) >= 2
    /\ current_indices[last.key_type] # 0

\* C8, about the state after a mark_exhausted call: the record of the marked
\* secret is the current time, and every record is the time of the last mark of
\* its secret, so that a re-marked secret is eligible again only after
\* t2 + 3600.
C8_State ==
    /\ last.op = "mark_exhausted" =>
          /\ last.key \in DOMAIN exhausted_keys[last.key_type]
          /\ exhausted_keys[last.key_type][last.key] = now
    /\ \A c \in KeyTypes :
          /\ DOMAIN exhausted_keys[c] = DOMAIN marked[c]
          /\ \A k \in DOMAIN marked[c] :
                /\ exhausted_keys[c][k] = marked[c][k]
                /\ Available(c, k) <=> now > marked[c][k] + cooldown_period

\* C8, about one step: marking the secret again at the same instant changes nothing.
C8_Step ==
    (/\ last.op = "mark_exhausted" /\ last'.op = "mark_exhausted"
     /\ last'.key_type = last.key_type /\ last'.key = last.key /\ now' = now)
    => UNCHANGED <<google_keys, anam_keys, elevenlabs_keys, exhausted_keys,
                   current_indices>>

\* C8: mark_exhausted(class, secret, reason) sets the record of (class, secret) to
\* the current time whatever the previous record and the reason; marking twice at
\* the same instant leaves the state of a single mark, and a secret marked again at
\* t2 is eligible again only after t2 + 3600.
C8_MarkWritesNow == [](C8_State) /\ [][C8_Step]_vars

\* A pool secret marked at time 0 has just been marked again at a time when the
\* first mark has expired: it is unavailable again.
C8_Witness ==
    /\ last.op = "mark_exhausted"
    /\ last.key \in PoolSet(last.key_type)
    /\ last.prev = {0}
    /\ now > cooldown_period
    /\ exhausted_keys[last.key_type][last.key] = now
    /\ ~Available(last.key_type, last.key)

\* C9: marks of a secret outside the pool are a no-op for selection: the manager
\* and the one that never received those marks agree on every cursor and on every
\* get_key and get_status result.
C9_ForeignMarkNoOp ==
    /\ current_indices = shadow_indices
    /\ last.op \in {"get_key", "get_status"} => last.ret = shadow_ret

\* get_key returns a secret of a class that holds a fresh record of a secret
\* outside its pool, and another pool secret is cooling down.
C9_Witness ==
    /\ last.op = "get_key"
    /\ last.ret # None
    /\ Foreign \in DOMAIN exhausted_keys[last.key_type]
    /\ ~Available(last.key_type, Foreign)
    /\ AvailableSet(last.key_type) # PoolSet(last.key_type)

\* C10, about the state after a get_status call: per class, available is the
\* number of pool secrets with no record or with a record older than the cooldown.
C10_State ==
    last.op = "get_status" =>
        \A c \in Classes :
            /\ last.ret[c].available = Cardinality(AvailableSet(c))
            /\ last.ret[c].total = Count(c)

\* C10, about one step: get_status changes no cursor, pool or record.
C10_Step ==
    last'.op = "get_status" =>
        UNCHANGED <<google_keys, anam_keys, elevenlabs_keys, exhausted_keys,
                    current_indices>>

\* C10: get_status is read-only (no cursor, pool or exhaustion timestamp changes),
\* and its available count of a class is the number of pool secrets with no record
\* or with a record older than the cooldown, so that a cooled-down secret whose
\* record still exists counts as available.
C10_StatusReadOnly == [](C10_State) /\ [][C10_Step]_vars

\* get_status counts as available a secret whose record still exists.
C10_Witness ==
    /\ last.op = "get_status"
    /\ \E c \in Classes : \E k \in PoolSet(c) :
          /\ k \in DOMAIN exhausted_keys[c]
          /\ Available(c, k)
          /\ last.ret[c].available = Count(c)

(***************************************************************************)
(* Key loading and the classifiers (SpecPure).                             *)
(***************************************************************************)

\* The first numbered variable that is unset; the discovery stops there.
FirstGap(env) ==
    Least({i \in 1..Len(env.numbered) : env.numbered[i] = None}
            \cup {Len(env.numbered) + 1})

\* The values in the order of discovery: the unnumbered variable, then _1, _2, ...
Discovered(env) ==
    (IF env.base # None THEN <<env.base>> ELSE << >>)
        \o SubSeq(env.numbered, 1, FirstGap(env) - 1)

\* The position at which the value v is first discovered.
FirstSeen(env, v) ==
    Least({i \in 1..Len(Discovered(env)) : Discovered(env)[i] = v})

\* C14: the list _load_keys returns has no duplicate, holds exactly the values
\* discovered (the unnumbered variable, then _1, _2, ... in ascending order), and
\* orders them by their first occurrence: a value that occurs more than once
\* appears once, at the place of its first occurrence.
C14_LoadKeysFirstSeen ==
    pure.loaded =>
        LET keys == pure.keys
            found == Discovered(pure.env)
        IN  /\ \A i, j \in 1..Len(keys) : keys[i] = keys[j] => i = j
            /\ {keys[i] : i \in 1..Len(keys)} = {found[i] : i \in 1..Len(found)}
            /\ \A i, j \in 1..Len(keys) :
                  i < j => FirstSeen(pure.env, keys[i]) < FirstSeen(pure.env, keys[j])

\* A value is discovered twice, after another value, and the list has two entries.
C14_Witness ==
    /\ pure.loaded
    /\ Len(pure.keys) = 2
    /\ pure.env.base # None
    /\ \E i \in 1..Len(Discovered(pure.env)) :
          /\ i > 2
          /\ Discovered(pure.env)[i] = pure.keys[2]
          /\ FirstSeen(pure.env, pure.keys[2]) = 2

\* Two characters that are equal up to case.
SameLetter(a, b) ==
    \/ a = b
    \/ \E j \in 1..Len(UpperChars) : {a, b} = {UpperChars[j], LowerChars[j]}

\* Some pattern of the list occurs in the text, case ignored.
OccursIn(text, patterns) ==
    \E p \in 1..Len(patterns) :
        \E i \in 0..(Len(text) - Len(patterns[p])) :
            \A j \in 1..Len(patterns[p]) : SameLetter(text[i + j], patterns[p][j])

\* C15: is_quota_error is true of "429 Too Many Requests" and of
\* "RESOURCE_EXHAUSTED: quota exceeded", is_auth_error is true of
\* "401 Unauthorized" and of "Invalid API key provided", both are false of
\* "connection refused"; each classifier is true exactly when one of its
\* patterns occurs in the text, case ignored.
C15_ClassifierLiterals ==
    pure.classified =>
        /\ pure.msg \in {Msg429, MsgResourceExhausted} => pure.quota
        /\ pure.msg \in {Msg401, MsgInvalidKey} => pure.auth
        /\ pure.msg = MsgConnectionRefused => ~pure.quota /\ ~pure.auth
        /\ pure.quota = OccursIn(pure.msg, error_patterns)
        /\ pure.auth = OccursIn(pure.msg, auth_patterns)

\* The mixed-case literal has been classified as an auth error, not as a quota error.
C15_Witness ==
    /\ pure.classified
    /\ pure.msg = MsgInvalidKey
    /\ pure.auth
    /\ ~pure.quota

(***************************************************************************)
(* The retry loops of server.py: run_agent on the class "google" and       *)
(* get_anam_session on the class "anam". One action is one remote call     *)
(* returning or raising, with everything the handler does until the next   *)
(* remote call or the end of the request. The two classes share no state,  *)
(* so a behaviour exercises one call site; the other one is Off. The clock *)
(* advances between requests, not while one is in progress.                *)
(***************************************************************************)

\* max_retries, in run_agent and in get_anam_session
max_retries == 3

\* One call of the manager made by a handler: mark_exhausted(key), or get_key()
\* with the value it returned.
Call(op, key) == [op |-> op, key |-> key]

\* What one remote call does: it returns, it raises an exception with a text, it
\* times out, or (Anam) it returns a response with a status code and a body.
Ok == [kind |-> "ok", status |-> 0, text |-> << >>]

Raised(msg) == [kind |-> "exception", status |-> 0, text |-> msg]

\* runner.run_async: completes, or raises
AgentOutcomes == {Ok} \cup {Raised(msg) : msg \in Messages}

\* client.post returns a response with a status code and a body.
Response(status, text) == [kind |-> "response", status |-> status, text |-> text]

\* client.post raises httpx.TimeoutException.
TimedOut == [kind |-> "timeout", status |-> 0, text |-> << >>]

\* response.text of a response that is neither a success nor a listed failure
\* "Internal Server Error"
BodyInternal ==
    <<"I", "n", "t", "e", "r", "n", "a", "l", " ", "S", "e", "r", "v", "e", "r",
      " ", "E", "r", "r", "o", "r">>

\* "billing account disabled"
BodyBilling ==
    <<"b", "i", "l", "l", "i", "n", "g", " ", "a", "c", "c", "o", "u", "n", "t",
      " ", "d", "i", "s", "a", "b", "l", "e", "d">>

\* The status codes the handler tells apart, and one it does not list.
AnamStatuses == {200, 429, 503, 401, 403, 500}

\* client.post: a response, a timeout, or another exception
AnamOutcomes ==
    {Response(s, << >>) : s \in AnamStatuses \ {500}}
        \cup {Response(500, BodyInternal), Response(500, BodyBilling), TimedOut}
        \cup {Raised(msg) : msg \in Messages}

DigitChars == <<"0", "1", "2", "3", "4", "5", "6", "7", "8", "9">>

\* ": Anam API error: "
AnamErrorPrefix ==
    <<":", " ", "A", "n", "a", "m", " ", "A", "P", "I", " ", "e", "r", "r", "o",
      "r", ":", " ">>

\* str() of HTTPException(status_code=status, detail=f"Anam API error: {text}"),
\* which is "<status_code>: <detail>". (Where str() of it is empty instead, the
\* handler does what it does here for a body that matches no pattern.)
HttpErrorText(status, text) ==
    <<DigitChars[(status \div 100) + 1], DigitChars[((status \div 10) % 10) + 1],
      DigitChars[(status % 10) + 1]>> \o AnamErrorPrefix \o text

\* The text the except Exception clause of get_anam_session classifies.
AnamText(o) == IF o.kind = "response" THEN HttpErrorText(o.status, o.text) ELSE o.text

\* The texts the handlers classify.
Texts == Messages \cup {AnamText(o) : o \in AnamOutcomes}

\* is_quota_error and is_auth_error on these texts, computed once.
QuotaTexts == {text \in Texts : is_quota_error(text)}

AuthTexts == {text \in Texts : is_auth_error(text)}

\* The kind of an outcome of run_agent's remote call, as the handler sees it.
AgentLabel(o) ==
    IF o.kind = "ok" THEN "ok"
    ELSE IF o.text \in QuotaTexts THEN "quota"
    ELSE IF o.text \in AuthTexts THEN "auth"
    ELSE IF o.text = MsgTimeout THEN "timeout"
    ELSE "other"

\* A slip in run_agent: the replacement is asked for before the failed key is marked.
AgentRotate_GetKeyFirst(exh, idx, env, attempt) ==
    IF attempt < max_retries - 1
    THEN LET g == GetKeyOn(exh, idx, "google")
             exh1 == IF env # None THEN MarkOn(exh, "google", env) ELSE exh
             marks == IF env # None THEN <<Call("mark_exhausted", env)>> ELSE << >>
         IN  [exh |-> exh1, idx |-> g.indices,
              env |-> IF g.ret # None THEN g.ret ELSE env,
              calls |-> <<Call("get_key", g.ret)>> \o marks,
              next |-> IF g.ret # None THEN "continue" ELSE "degraded"]
    ELSE [exh |-> IF env # None THEN MarkOn(exh, "google", env) ELSE exh,
          idx |-> idx, env |-> env,
          calls |-> IF env # None THEN <<Call("mark_exhausted", env)>> ELSE << >>,
          next |-> "degraded"]

\* The quota branch and the auth branch of run_agent's handler (they differ in
\* the reason passed to mark_exhausted, which the manager does not store):
\* mark the key of the environment if there is one; before the last attempt ask
\* for a replacement, install it and continue, or break when there is none.
AgentRotate(exh, idx, env, attempt) ==
    LET exh1 == IF env # None THEN MarkOn(exh, "google", env) ELSE exh
        marks == IF env # None THEN <<Call("mark_exhausted", env)>> ELSE << >>
    IN  IF attempt < max_retries - 1
        THEN LET g == GetKeyOn(exh1, idx, "google") IN
             [exh |-> exh1, idx |-> g.indices,
              env |-> IF g.ret # None THEN g.ret ELSE env,
              calls |-> marks \o <<Call("get_key", g.ret)>>,
              next |-> IF g.ret # None THEN "continue" ELSE "degraded"]
        ELSE [exh |-> exh1, idx |-> idx, env |-> env, calls |-> marks,
              next |-> "degraded"]

\* A slip in run_agent: after an auth error the key is marked but no replacement
\* is asked for.
AgentHandle_AuthNoRetry(exh, idx, env, attempt, o) ==
    IF o.kind = "ok"
    THEN [exh |-> exh, idx |-> idx, env |-> env, calls |-> << >>, next |-> "success"]
    ELSE IF o.text \in QuotaTexts THEN AgentRotate(exh, idx, env, attempt)
    ELSE IF o.text \in AuthTexts THEN AgentRotate(exh, idx, env, max_retries - 1)
    ELSE [exh |-> exh, idx |-> idx, env |-> env, calls |-> << >>, next |-> "raised"]

\* A slip in run_agent: an unclassified failure is retried like a classified one.
AgentHandle_RetryAll(exh, idx, env, attempt, o) ==
    IF o.kind = "ok"
    THEN [exh |-> exh, idx |-> idx, env |-> env, calls |-> << >>, next |-> "success"]
    ELSE AgentRotate(exh, idx, env, attempt)

\* One iteration of run_agent's loop at the outcome o of its remote call: the
\* return of the try block, or the except block.
AgentHandle(exh, idx, env, attempt, o) ==
    IF o.kind = "ok"
    THEN [exh |-> exh, idx |-> idx, env |-> env, calls |-> << >>, next |-> "success"]
    ELSE IF o.text \in QuotaTexts THEN AgentRotate(exh, idx, env, attempt)
    ELSE IF o.text \in AuthTexts THEN AgentRotate(exh, idx, env, attempt)
    ELSE [exh |-> exh, idx |-> idx, env |-> env, calls |-> << >>, next |-> "raised"]

\* The secrets of a class that are available now.
Fresh(key_type) ==
    {key \in PoolSet(key_type) : KeyAvailableIn(exhausted_keys, key_type, key, now)}

\* The record of a request: used[i] is the secret of the i-th remote call,
\* outcomes[i] what that call did, calls the manager calls made so far, fresh
\* the secrets that were available when the request came in.
Request(used, fresh) ==
    [pc |-> "calling", attempt |-> 0, used |-> used, calls |-> << >>,
     outcomes |-> << >>, result |-> "none", status |-> 0, fresh |-> fresh]

\* The configurations of the server: n secrets for each class, the unnumbered
\* variable set or not, and the call site that is exercised.
InitRetry ==
    /\ \E n \in 0..MaxKeys : \E base \in BOOLEAN : \E site \in {"agent", "anam"} :
          LET first == IF base /\ n > 0 THEN 1 ELSE None
              shift == IF first = None THEN 0 ELSE 1
              env == [base |-> first, numbered |-> [i \in 1..(n - shift) |-> i + shift]]
          IN  /\ site = "anam" => base
              /\ google_keys = load_keys(env)
              /\ anam_keys = load_keys(env)
              /\ env_key = env.base
              /\ agent = IF site = "agent" THEN [pc |-> "idle"] ELSE Off
              /\ anam = IF site = "anam" THEN [pc |-> "idle"] ELSE Off
    /\ elevenlabs_keys = << >>
    /\ exhausted_keys = [c \in KeyTypes |-> << >>]
    /\ current_indices = [c \in Classes |-> 0]
    /\ now = 0
    /\ last = NoCall
    /\ marked = [c \in KeyTypes |-> << >>]
    /\ shadow_exhausted = [c \in KeyTypes |-> << >>]
    /\ shadow_indices = [c \in Classes |-> 0]
    /\ shadow_ret = None
    /\ pure = Off
    /\ reqs = Off
    /\ chat = Off
    /\ store = Off

\* run_agent is called: the first remote call is made with the key of the environment.
AgentStart ==
    /\ agent.pc \in {"idle", "done"}
    /\ agent' = Request(<<env_key>>, Fresh("google"))
    /\ UNCHANGED <<google_keys, anam_keys, elevenlabs_keys, exhausted_keys,
                   current_indices, now, history, extras, pure, env_key, anam>>

\* The remote call of run_agent returns or raises, and the loop goes on to the
\* next remote call or ends.
AgentAttempt(o) ==
    /\ agent.pc = "calling"
    /\ LET h == AgentHandle(exhausted_keys, current_indices, env_key, agent.attempt, o)
           goes == h.next = "continue"
       IN  /\ exhausted_keys' = h.exh
           /\ current_indices' = h.idx
           /\ env_key' = h.env
           /\ agent' = [agent EXCEPT
                  !.pc = IF goes THEN "calling" ELSE "done",
                  !.attempt = IF goes THEN @ + 1 ELSE @,
                  !.used = IF goes THEN Append(@, h.env) ELSE @,
                  !.calls = @ \o h.calls,
                  !.outcomes = Append(@, AgentLabel(o)),
                  !.result = IF goes THEN "none" ELSE h.next]
    /\ UNCHANGED <<google_keys, anam_keys, elevenlabs_keys, now, history, extras, pure, anam>>

\* The kind of an outcome of get_anam_session's remote call, as the handler sees it.
AnamLabel(o) ==
    IF o.kind = "timeout" THEN "timeout"
    ELSE IF o.kind = "response" /\ o.status = 200 THEN "ok"
    ELSE IF o.kind = "response" /\ o.status \in {429, 503} THEN "quota"
    ELSE IF o.kind = "response" /\ o.status \in {401, 403} THEN "auth"
    ELSE IF AnamText(o) \in QuotaTexts THEN "quota"
    ELSE IF AnamText(o) \in AuthTexts THEN "auth"
    ELSE "other"

\* What an iteration of get_anam_session leaves: the manager, the local
\* anam_api_key, the calls made, and how the loop goes on: "continue", or the
\* end of the request: "success" (the session token is returned), "degraded"
\* (HTTPException 503 after the loop), "raised" (the exception caught is raised
\* again; status is its status code when it is the HTTPException of the try
\* block) or "http_error" (another HTTPException, with its status code).
AnamStep(exh, idx, key, calls, next, status) ==
    [exh |-> exh, idx |-> idx, key |-> key, calls |-> calls, next |-> next,
     status |-> status]

\* A slip in get_anam_session: the replacement is asked for on the last attempt too.
AnamRotate_NoAttemptTest(exh, idx, key, attempt) ==
    LET exh1 == MarkOn(exh, "anam", key)
        g == GetKeyOn(exh1, idx, "anam")
    IN  AnamStep(exh1, g.indices, g.ret,
                 <<Call("mark_exhausted", key), Call("get_key", g.ret)>>,
                 IF g.ret # None /\ attempt < max_retries - 1
                 THEN "continue" ELSE "degraded", 503)

\* The branches of get_anam_session for status 429/503, for status 401/403 and
\* for a classified exception (they differ in the reason passed to
\* mark_exhausted): mark anam_api_key; before the last attempt ask for a
\* replacement and continue, or break when there is none. After the loop: 503.
AnamRotate(exh, idx, key, attempt) ==
    LET exh1 == MarkOn(exh, "anam", key) IN
    IF attempt < max_retries - 1
    THEN LET g == GetKeyOn(exh1, idx, "anam") IN
         AnamStep(exh1, g.indices, g.ret,
                  <<Call("mark_exhausted", key), Call("get_key", g.ret)>>,
                  IF g.ret # None THEN "continue" ELSE "degraded", 503)
    ELSE AnamStep(exh1, idx, key, <<Call("mark_exhausted", key)>>, "degraded", 503)

\* A slip in get_anam_session: the last timeout leaves the loop like a break.
AnamTimeout_Break(exh, idx, key, attempt) ==
    IF attempt < max_retries - 1
    THEN AnamStep(exh, idx, key, << >>, "continue", 0)
    ELSE AnamStep(exh, idx, key, << >>, "degraded", 503)

\* A slip in get_anam_session: a timeout ends the request at once.
AnamTimeout_Terminal(exh, idx, key, attempt) ==
    AnamStep(exh, idx, key, << >>, "http_error", 504)

\* except httpx.TimeoutException: try again with the same key, 504 on the last attempt.
AnamTimeout(exh, idx, key, attempt) ==
    IF attempt < max_retries - 1
    THEN AnamStep(exh, idx, key, << >>, "continue", 0)
    ELSE AnamStep(exh, idx, key, << >>, "http_error", 504)

\* except Exception as e: a classified text rotates, any other is raised again;
\* an HTTPException raised in the try block for an unlisted status comes here too.
AnamExcept(exh, idx, key, attempt, o) ==
    IF AnamText(o) \in QuotaTexts \/ AnamText(o) \in AuthTexts
    THEN AnamRotate(exh, idx, key, attempt)
    ELSE AnamStep(exh, idx, key, << >>, "raised", o.status)

\* One iteration of get_anam_session's loop at the outcome o of client.post.
AnamHandle(exh, idx, key, attempt, o) ==
    IF o.kind = "timeout" THEN AnamTimeout(exh, idx, key, attempt)
    ELSE IF o.kind = "exception" THEN AnamExcept(exh, idx, key, attempt, o)
    ELSE IF o.status = 200 THEN AnamStep(exh, idx, key, << >>, "success", 200)
    ELSE IF o.status \in {429, 503} THEN AnamRotate(exh, idx, key, attempt)
    ELSE IF o.status \in {401, 403} THEN AnamRotate(exh, idx, key, attempt)
    ELSE AnamExcept(exh, idx, key, attempt, o)

\* get_anam_session is called: it asks the manager for a key, and answers 400
\* without a remote call when there is none.
AnamStart ==
    /\ anam.pc \in {"idle", "done"}
    /\ LET g == GetKeyOn(exhausted_keys, current_indices, "anam") IN
       /\ current_indices' = g.indices
       /\ anam' = IF g.ret # None
                  THEN [Request(<<g.ret>>, Fresh("anam")) EXCEPT !.calls = <<Call("get_key", g.ret)>>]
                  ELSE [Request(<< >>, Fresh("anam")) EXCEPT !.pc = "done",
                                              !.calls = <<Call("get_key", None)>>,
                                              !.result = "http_error",
                                              !.status = 400]
    /\ UNCHANGED <<google_keys, anam_keys, elevenlabs_keys, exhausted_keys, now,
                   history, extras, pure, env_key, agent>>

\* A slip in get_anam_session: a timeout moves the attempt index back and forth
\* between 0 and 1 instead of counting the attempt.
AnamAttempt_Redo(o) ==
    /\ anam.pc = "calling"
    /\ LET h == AnamHandle(exhausted_keys, current_indices,
                           anam.used[Len(anam.used)], anam.attempt, o)
           goes == h.next = "continue"
       IN  IF o.kind = "timeout"
           THEN /\ anam' = [anam EXCEPT !.attempt = IF @ = 0 THEN 1 ELSE 0]
                /\ UNCHANGED <<exhausted_keys, current_indices>>
           ELSE /\ exhausted_keys' = h.exh
                /\ current_indices' = h.idx
                /\ anam' = [anam EXCEPT
                       !.pc = IF goes THEN "calling" ELSE "done",
                       !.attempt = IF goes THEN @ + 1 ELSE @,
                       !.used = IF goes THEN Append(@, h.key) ELSE @,
                       !.calls = @ \o h.calls,
                       !.outcomes = Append(@, AnamLabel(o)),
                       !.result = IF goes THEN "none" ELSE h.next,
                       !.status = IF goes THEN 0 ELSE h.status]
    /\ UNCHANGED <<google_keys, anam_keys, elevenlabs_keys, now, history, extras, pure,
                   env_key, agent>>

\* The remote call of get_anam_session returns, times out or raises, and the
\* loop goes on to the next remote call or ends.
AnamAttempt(o) ==
    /\ anam.pc = "calling"
    /\ LET h == AnamHandle(exhausted_keys, current_indices,
                           anam.used[Len(anam.used)], anam.attempt, o)
           goes == h.next = "continue"
       IN  /\ exhausted_keys' = h.exh
           /\ current_indices' = h.idx
           /\ anam' = [anam EXCEPT
                  !.pc = IF goes THEN "calling" ELSE "done",
                  !.attempt = IF goes THEN @ + 1 ELSE @,
                  !.used = IF goes THEN Append(@, h.key) ELSE @,
                  !.calls = @ \o h.calls,
                  !.outcomes = Append(@, AnamLabel(o)),
                  !.result = IF goes THEN "none" ELSE h.next,
                  !.status = IF goes THEN 0 ELSE h.status]
    /\ UNCHANGED <<google_keys, anam_keys, elevenlabs_keys, now, history, extras, pure,
                   env_key, agent>>

\* Time passes between two requests.
Wait(d) ==
    /\ agent.pc # "calling"
    /\ anam.pc # "calling"
    /\ Tick(d)

NextRetry ==
    \/ AgentStart
    \/ \E o \in AgentOutcomes : AgentAttempt(o)
    \/ AnamStart
    \/ \E o \in AnamOutcomes : AnamAttempt(o)
    \/ \E d \in TickSteps : Wait(d)

SpecRetry == InitRetry /\ [][NextRetry]_vars

\* Each remote call eventually returns or raises.
SpecRetryFair ==
    /\ SpecRetry
    /\ WF_vars(\E o \in AgentOutcomes : AgentAttempt(o))
    /\ WF_vars(\E o \in AnamOutcomes : AnamAttempt(o))

(***************************************************************************)
(* The retry protocol (SpecRetry).                                         *)
(***************************************************************************)

\* The requests of the two call sites, each with its class.
Sites == {[req |-> agent, class |-> "google"], [req |-> anam, class |-> "anam"]}

\* The requests that have ended.
Ended == {s \in Sites : s.req.pc = "done"}

\* The secrets passed to mark_exhausted during a request, in order.
Marks(req) ==
    LET at == {i \in 1..Len(req.calls) : req.calls[i].op = "mark_exhausted"}
        Nth(n) == CHOOSE i \in at : Cardinality({j \in at : j <= i}) = n
    IN  [n \in 1..Cardinality(at) |-> req.calls[Nth(n)].key]

\* C11: with 2 keys configured, both available when the request comes in, and a
\* remote call that fails with a quota error every time, the request makes its
\* first remote call with one key, marks it, makes a second call with the other
\* key, marks it, and ends degraded (all keys exhausted) after exactly 2 remote calls.
C11_TwoKeysAlwaysQuota ==
    \A s \in Ended :
        (/\ Count(s.class) = 2
         /\ s.req.fresh = PoolSet(s.class)
         /\ s.req.outcomes # << >>
         /\ \A i \in 1..Len(s.req.outcomes) : s.req.outcomes[i] = "quota")
        => /\ Len(s.req.outcomes) = 2
           /\ Len(s.req.used) = 2
           /\ {s.req.used[1], s.req.used[2]} = PoolSet(s.class)
           /\ Marks(s.req) = s.req.used
           /\ s.req.result = "degraded"

\* The step from the request old to the request new is the end of a remote call.
Attempts(old, new) ==
    /\ old.pc = "calling"
    /\ new.pc \in {"calling", "done"}
    /\ Len(new.outcomes) = Len(old.outcomes) + 1

\* What the latest remote call of a request did.
Latest(req) == req.outcomes[Len(req.outcomes)]

\* The secret of the latest remote call of a request.
Current(req) == req.used[Len(req.used)]

\* The step ends the request in a failure passed on, with no call of the manager.
PassesOn(old, new) ==
    /\ new.pc = "done"
    /\ new.result \in {"raised", "http_error"}
    /\ new.calls = old.calls
    /\ UNCHANGED <<exhausted_keys, current_indices, env_key>>

C12_OriginalStep ==
    /\ (Attempts(agent, agent') /\ Latest(agent') \in {"other", "timeout"})
          => PassesOn(agent, agent')
    /\ (Attempts(anam, anam') /\ Latest(anam') \in {"other", "timeout"})
          => PassesOn(anam, anam')

\* C12 as stated: in both loops a failure that matches neither classifier (a
\* timeout included) ends the request on that attempt, with no further remote
\* call, no mark_exhausted and no get_key.
C12_Original == [][C12_OriginalStep]_vars

C12_Step ==
    /\ (Attempts(agent, agent') /\ Latest(agent') \in {"other", "timeout"})
          => PassesOn(agent, agent') /\ agent'.result = "raised"
    /\ (Attempts(anam, anam') /\ Latest(anam') = "other")
          => PassesOn(anam, anam')
    /\ (Attempts(anam, anam') /\ Latest(anam') = "timeout")
          => /\ anam'.calls = anam.calls
             /\ UNCHANGED <<exhausted_keys, current_indices, env_key>>
             /\ IF anam.attempt < max_retries - 1
                THEN /\ anam'.pc = "calling"
                     /\ anam'.attempt = anam.attempt + 1
                     /\ Current(anam') = Current(anam)
                ELSE /\ anam'.pc = "done"
                     /\ anam'.result = "http_error"
                     /\ anam'.status = 504

\* C12, amended: a failure that matches neither classifier ends the request on
\* that attempt with no further remote call, no mark_exhausted and no get_key,
\* except a timeout of get_anam_session's call: that one is tried again with
\* the same key (no mark_exhausted, no get_key) on the first and second
\* attempt, and ends the request with status 504 on the third.
C12_UnclassifiedPassthrough == [][C12_Step]_vars

\* get_anam_session has timed out on its first call, called again with the same
\* key, and then ended on a failure that matches no classifier.
C12_Witness ==
    /\ anam.pc = "done"
    /\ anam.outcomes = <<"timeout", "other">>
    /\ anam.used[1] = anam.used[2]
    /\ Marks(anam) = << >>
    /\ anam.result = "raised"

\* C13 as stated: a retry loop that has made a remote call ends in the successful
\* result, in the handled degraded response, or in the exception of the remote
\* call raised again; it never ends in a different error raised after retries.
C13_Original ==
    \A s \in Ended :
        s.req.outcomes # << >> => s.req.result \in {"success", "degraded", "raised"}

\* C13, amended: run_agent ends in exactly one of: its result (the call
\* succeeded), the degraded text (the last call failed classified), the
\* exception raised again (the last call failed unclassified).
\* get_anam_session ends in one of these three (the degraded response being
\* HTTP 503), or in HTTP 504 when its third call timed out, or in HTTP 400
\* before any remote call when no key is available.
C13_Outcomes ==
    /\ agent.pc = "done" =>
          /\ agent.result \in {"success", "degraded", "raised"}
          /\ agent.result = "success" <=> Latest(agent) = "ok"
          /\ agent.result = "degraded" <=> Latest(agent) \in {"quota", "auth"}
          /\ agent.result = "raised" <=> Latest(agent) \in {"other", "timeout"}
    /\ (anam.pc = "done" /\ anam.outcomes = << >>) =>
          /\ anam.result = "http_error" /\ anam.status = 400
          /\ anam.fresh = {}
    /\ (anam.pc = "done" /\ anam.outcomes # << >>) =>
          /\ anam.result \in {"success", "degraded", "raised", "http_error"}
          /\ anam.result = "success" <=> Latest(anam) = "ok"
          /\ anam.result = "degraded" <=> Latest(anam) \in {"quota", "auth"}
          /\ anam.result = "degraded" => anam.status = 503
          /\ anam.result = "raised" <=> Latest(anam) = "other"
          /\ anam.result = "http_error" <=> Latest(anam) = "timeout"
          /\ anam.result = "http_error" =>
                anam.status = 504 /\ Len(anam.outcomes) = max_retries

\* get_anam_session has ended with HTTP 504 on a timeout of its third call.
C13_Witness ==
    /\ anam.pc = "done"
    /\ anam.result = "http_error"
    /\ anam.status = 504
    /\ Len(anam.outcomes) = max_retries
    /\ Latest(anam) = "timeout"

\* The requests in progress or ended.
Begun == {s \in Sites : s.req.pc \in {"calling", "done"}}

C16_State ==
    \A s \in Begun :
        /\ Len(s.req.used) <= max_retries
        /\ Len(s.req.outcomes) <= max_retries
        /\ s.req.attempt < max_retries

\* The third remote call of the request old has failed classified, and new is
\* what the handler leaves: the key marked, no get_key, the request ended.
LastAttemptEnds(old, new, class) ==
    (/\ Attempts(old, new)
     /\ Len(new.outcomes) = max_retries
     /\ Latest(new) \in {"quota", "auth"})
    => /\ new.pc = "done"
       /\ new.result = "degraded"
       /\ new.calls = Append(old.calls, Call("mark_exhausted", Current(old)))
       /\ exhausted_keys' = [exhausted_keys EXCEPT
                                ![class] = (Current(old) :> now) @@ @]
       /\ UNCHANGED <<current_indices, env_key>>

C16_Step ==
    /\ LastAttemptEnds(agent, agent', "google")
    /\ LastAttemptEnds(anam, anam', "anam")

\* C16: a request makes at most max_retries (3) remote calls; when the third one
\* fails with a quota or auth error the handler marks the key and ends the
\* request degraded without calling get_key, whatever keys are still available.
C16_AtMostThreeCalls == [](C16_State) /\ [][C16_Step]_vars

\* A request has ended on its third classified failure while a key of its class
\* is still available.
C16_Witness ==
    \E s \in Ended :
        /\ Len(s.req.outcomes) = max_retries
        /\ Latest(s.req) \in {"quota", "auth"}
        /\ s.req.result = "degraded"
        /\ AvailableSet(s.class) # {}

\* The ends of a request: success, all keys exhausted (degraded), or a failure
\* passed on to the caller.
Terminal(req) ==
    /\ req.pc = "done"
    /\ req.result \in {"success", "degraded", "raised", "http_error"}

\* C17: provided each remote call eventually returns or raises, every request
\* of run_agent and of get_anam_session reaches a terminal state, for every pool
\* size and every sequence of outcomes of the remote calls.
C17_Terminates ==
    /\ (agent.pc = "calling") ~> Terminal(agent)
    /\ (anam.pc = "calling") ~> Terminal(anam)

\* A request has ended after using all its attempts: three remote calls, the
\* first two of them failures that were retried.
C17_Witness ==
    \E s \in Ended :
        /\ Terminal(s.req)
        /\ Len(s.req.outcomes) = max_retries
        /\ s.req.outcomes[1] # "ok"
        /\ s.req.outcomes[2] # "ok"

\* The call made with the secret Current(old) has failed with a quota or auth
\* error: that secret is marked first, get_key is asked afterwards if at all,
\* and the secret of the next remote call is the one get_key returned, which is
\* another secret of the pool.
FailsOver(old, new, class) ==
    (/\ Attempts(old, new)
     /\ Latest(new) \in {"quota", "auth"}
     /\ Current(old) # None)
    => LET k == Current(old)
           made == SubSeq(new.calls, Len(old.calls) + 1, Len(new.calls))
       IN  /\ Len(made) \in {1, 2}
           /\ made[1] = Call("mark_exhausted", k)
           /\ Len(made) = 2 => made[2].op = "get_key"
           /\ k \in DOMAIN exhausted_keys'[class]
           /\ exhausted_keys'[class][k] = now
           /\ new.pc = "calling" =>
                 /\ Len(made) = 2
                 /\ Current(new) = made[2].key
                 /\ Current(new) \in PoolSet(class)
                 /\ Current(new) # k

C18_Step ==
    /\ FailsOver(agent, agent', "google")
    /\ FailsOver(anam, anam', "anam")
    /\ (Attempts(agent, agent') /\ agent'.pc = "calling") => env_key' = Current(agent')

TimeoutEnds(old, new) ==
    (Attempts(old, new) /\ Latest(new) = "timeout")
    => /\ new.pc = "done"
       /\ Len(new.outcomes) = Len(new.used)
       /\ new.calls = old.calls
       /\ UNCHANGED <<exhausted_keys, current_indices, env_key>>

\* C19 as stated: at both call sites a timeout of the remote call is not
\* classified and ends the request on its first occurrence, with no retry, no
\* mark_exhausted and no key rotation.
C19_Original == [][TimeoutEnds(agent, agent') /\ TimeoutEnds(anam, anam')]_vars

\* The timeouts of a request so far.
TimedOutAt(req) == {i \in 1..Len(req.outcomes) : req.outcomes[i] = "timeout"}

C19_State ==
    /\ MsgTimeout \notin QuotaTexts \cup AuthTexts
    /\ agent.pc \in {"calling", "done"} =>
          \A i \in TimedOutAt(agent) :
              /\ i = Len(agent.outcomes)
              /\ agent.pc = "done"
              /\ agent.result = "raised"
    /\ anam.pc \in {"calling", "done"} =>
          \A i \in TimedOutAt(anam) :
              IF i < max_retries
              THEN i < Len(anam.used) /\ anam.used[i + 1] = anam.used[i]
              ELSE /\ anam.pc = "done"
                   /\ anam.result = "http_error"
                   /\ anam.status = 504

C19_Step ==
    /\ TimeoutEnds(agent, agent')
    /\ (Attempts(anam, anam') /\ Latest(anam') = "timeout")
          => /\ anam'.calls = anam.calls
             /\ UNCHANGED <<exhausted_keys, current_indices, env_key>>

\* C19, amended: a timeout is classified neither as quota nor as auth and causes
\* no mark_exhausted and no key rotation at either call site. In run_agent it
\* ends the request on its first occurrence (the exception is raised again). In
\* get_anam_session it is retried with the same key, and ends the request, with
\* status 504, only when it occurs on the third attempt.
C19_TimeoutNoRotation == [](C19_State) /\ [][C19_Step]_vars

\* get_anam_session has timed out three times on the same key and answered 504,
\* with no key marked.
C19_Witness ==
    /\ anam.pc = "done"
    /\ anam.outcomes = <<"timeout", "timeout", "timeout">>
    /\ anam.used = <<anam.used[1], anam.used[1], anam.used[1]>>
    /\ anam.calls = <<Call("get_key", anam.used[1])>>
    /\ anam.status = 504

(***************************************************************************)
(* The two loops side by side.                                             *)
(***************************************************************************)

\* The kinds of outcome the two remote calls have in common.
Labels == {"ok", "quota", "auth", "other"}

\* A remote call of run_agent with an outcome of the given kind.
AgentOutcomeOf(label) ==
    IF label = "ok" THEN Ok
    ELSE IF label = "quota" THEN Raised(Msg429)
    ELSE IF label = "auth" THEN Raised(Msg401)
    ELSE Raised(MsgConnectionRefused)

\* A remote call of get_anam_session with an outcome of the given kind.
AnamOutcomeOf(label) ==
    IF label = "ok" THEN Response(200, << >>)
    ELSE IF label = "quota" THEN Response(429, << >>)
    ELSE IF label = "auth" THEN Response(401, << >>)
    ELSE Raised(MsgConnectionRefused)

\* run_agent from its first remote call to its end, the i-th remote call having
\* the outcome labels[i].
RECURSIVE AgentRun(_, _, _, _, _, _)
AgentRun(exh, idx, env, attempt, labels, calls) ==
    LET h == AgentHandle(exh, idx, env, attempt, AgentOutcomeOf(labels[attempt + 1])) IN
    IF h.next = "continue"
    THEN AgentRun(h.exh, h.idx, h.env, attempt + 1, labels, calls \o h.calls)
    ELSE [calls |-> calls \o h.calls, attempts |-> attempt + 1, result |-> h.next]

\* The loop of get_anam_session from a remote call to its end.
RECURSIVE AnamLoop(_, _, _, _, _, _)
AnamLoop(exh, idx, key, attempt, labels, calls) ==
    LET h == AnamHandle(exh, idx, key, attempt, AnamOutcomeOf(labels[attempt + 1])) IN
    IF h.next = "continue"
    THEN AnamLoop(h.exh, h.idx, h.key, attempt + 1, labels, calls \o h.calls)
    ELSE [calls |-> calls \o h.calls, attempts |-> attempt + 1, result |-> h.next]

\* get_anam_session from its call to its end.
AnamRun(exh, idx, labels) ==
    LET g == GetKeyOn(exh, idx, "anam") IN
    IF g.ret = None
    THEN [calls |-> <<Call("get_key", None)>>, attempts |-> 0, result |-> "http_error"]
    ELSE AnamLoop(exh, g.indices, g.ret, 0, labels, <<Call("get_key", g.ret)>>)

\* The manager with the records and the cursor of class from copied to class to
\* (the two pools hold the same secrets).
CopyExh(from, to) == [exhausted_keys EXCEPT ![to] = exhausted_keys[from]]

CopyIdx(from, to) == [current_indices EXCEPT ![to] = current_indices[from]]

SameIteration(class, key, attempt, label) ==
    LET a == AgentHandle(CopyExh(class, "google"), CopyIdx(class, "google"),
                         key, attempt, AgentOutcomeOf(label))
        b == AnamHandle(CopyExh(class, "anam"), CopyIdx(class, "anam"),
                        key, attempt, AnamOutcomeOf(label))
    IN  /\ a.calls = b.calls
        /\ a.next = b.next
        /\ a.exh["google"] = b.exh["anam"]
        /\ a.idx["google"] = b.idx["anam"]
        /\ a.next = "continue" => a.env = b.key

Swap(labels) ==
    [i \in DOMAIN labels |->
        IF labels[i] = "quota" THEN "auth"
        ELSE IF labels[i] = "auth" THEN "quota"
        ELSE labels[i]]

\* The outcomes each handler treats as a quota or an auth failure.
AgentClassified == {o \in AgentOutcomes : AgentLabel(o) \in {"quota", "auth"}}

AnamClassified == {o \in AnamOutcomes : AnamLabel(o) \in {"quota", "auth"}}

\* C21: auth failures are handled as quota failures are. At every attempt the
\* handler does the same for any two classified failures (same key marked, same
\* get_key call, same next secret, same end); and a whole run with its quota
\* and auth failures exchanged makes the same calls and the same number of
\* attempts and ends in the same terminal state.
C21_AuthAsQuota ==
    /\ agent.pc = "calling" =>
          \A o1, o2 \in AgentClassified :
              AgentHandle(exhausted_keys, current_indices, env_key, agent.attempt, o1)
                = AgentHandle(exhausted_keys, current_indices, env_key, agent.attempt, o2)
    /\ anam.pc = "calling" =>
          \A o1, o2 \in AnamClassified :
              AnamHandle(exhausted_keys, current_indices, Current(anam), anam.attempt, o1)
                = AnamHandle(exhausted_keys, current_indices, Current(anam), anam.attempt, o2)
    /\ agent.pc \in {"idle", "done"} =>
          \A labels \in [1..max_retries -> Labels] :
              AgentRun(exhausted_keys, current_indices, env_key, 0, labels, << >>)
                = AgentRun(exhausted_keys, current_indices, env_key, 0, Swap(labels), << >>)
    /\ anam.pc \in {"idle", "done"} =>
          \A labels \in [1..max_retries -> Labels] :
              AnamRun(exhausted_keys, current_indices, labels)
                = AnamRun(exhausted_keys, current_indices, Swap(labels))

\* A request has failed over twice, once on a quota failure and once on an auth
\* failure, and is at its third secret.
C21_Witness ==
    \E s \in Sites :
        /\ s.req.pc = "calling"
        /\ s.req.outcomes \in {<<"quota", "auth">>, <<"auth", "quota">>}
        /\ Len(s.req.used) = 3
        /\ Len(Marks(s.req)) = 2
        /\ Cardinality({s.req.used[i] : i \in 1..3}) = 3

(***************************************************************************)
(* Requests handled concurrently. Every endpoint of server.py is an async  *)
(* def, so the requests run on one event loop and change hands only at an  *)
(* await: in run_agent and get_anam_session, at the remote call. One       *)
(* action is what a request does between two awaits; get_key and           *)
(* mark_exhausted are called inside it and are never interrupted. The      *)
(* requests of a behaviour are at one call site and overlap within one     *)
(* cooldown period: the clock stands still, and the passing of a cooldown  *)
(* between arbitrary calls of the manager is in Spec.                      *)
(***************************************************************************)

\* The number of requests in progress at the same time.
MaxRequests == 2

Requests == 1..MaxRequests

\* A request slot with no request in progress: the next one to come in takes
\* it. key is the secret of the remote call in progress.
Idle(site) ==
    [site |-> site, pc |-> "idle", attempt |-> 0, key |-> None]

\* Server start, as in InitRetry, with MaxRequests requests to come at one site.
InitConc ==
    /\ \E n \in 0..MaxKeys : \E base \in BOOLEAN : \E site \in {"agent", "anam"} :
          LET first == IF base /\ n > 0 THEN 1 ELSE None
              shift == IF first = None THEN 0 ELSE 1
              env == [base |-> first, numbered |-> [i \in 1..(n - shift) |-> i + shift]]
          IN  /\ site = "anam" => base
              /\ google_keys = load_keys(env)
              /\ anam_keys = load_keys(env)
              /\ env_key = env.base
              /\ reqs = [r \in Requests |-> Idle(site)]
    /\ elevenlabs_keys = << >>
    /\ exhausted_keys = [c \in KeyTypes |-> << >>]
    /\ current_indices = [c \in Classes |-> 0]
    /\ now = 0
    /\ last = NoCall
    /\ marked = [c \in KeyTypes |-> << >>]
    /\ shadow_exhausted = [c \in KeyTypes |-> << >>]
    /\ shadow_indices = [c \in Classes |-> 0]
    /\ shadow_ret = None
    /\ pure = Off
    /\ agent = Off
    /\ anam = Off
    /\ chat = Off
    /\ store = Off

\* The key manager's class of a call site.
ClassOf(site) == IF site = "agent" THEN "google" ELSE "anam"

\* The latest call of the manager after a step that made the calls in calls
\* (a mark_exhausted, then possibly a get_key that read the cursor at start).
LastOf(calls, key_type, start) ==
    IF calls = << >> THEN last
    ELSE LET c == calls[Len(calls)] IN
         IF c.op = "get_key"
         THEN [op |-> "get_key", key_type |-> key_type, key |-> None, ret |-> c.key,
               start_index |-> start, nth |-> 0, prev |-> {}]
         ELSE [op |-> "mark_exhausted", key_type |-> key_type, key |-> c.key,
               ret |-> None, start_index |-> 0, nth |-> 0, prev |-> {}]

\* A request comes in and runs up to its first remote call: run_agent with the
\* key of the environment, get_anam_session with the key get_key returns.
ConcStart(r) ==
    /\ reqs[r].pc = "idle"
    /\ IF reqs[r].site = "agent"
       THEN /\ reqs' = [reqs EXCEPT ![r] =
                  [Idle("agent") EXCEPT !.pc = "calling", !.key = env_key]]
            /\ UNCHANGED <<current_indices, last>>
       ELSE LET g == GetKeyOn(exhausted_keys, current_indices, "anam") IN
            /\ current_indices' = g.indices
            /\ last' = LastOf(<<Call("get_key", g.ret)>>, "anam", current_indices["anam"])
            /\ reqs' = [reqs EXCEPT ![r] =
                  IF g.ret # None
                  THEN [Idle("anam") EXCEPT !.pc = "calling", !.key = g.ret]
                  ELSE Idle("anam")]
    /\ UNCHANGED <<google_keys, anam_keys, elevenlabs_keys, exhausted_keys, now,
                   marked, shadow_exhausted, shadow_indices, shadow_ret,
                   callers, chat, store>>

\* What the handler of request r does when its remote call ends with label:
\* the manager after it, the environment's key, the key of the next call, the
\* calls made on the manager, and whether the loop goes on.
ConcHandle(r, label) ==
    LET q == reqs[r]
        a == AgentHandle(exhausted_keys, current_indices, env_key, q.attempt,
                         AgentOutcomeOf(label))
        b == AnamHandle(exhausted_keys, current_indices, q.key, q.attempt,
                        AnamOutcomeOf(label))
    IN  IF q.site = "agent"
        THEN [exh |-> a.exh, idx |-> a.idx, env |-> a.env, key |-> a.env,
              calls |-> a.calls, next |-> a.next]
        ELSE [exh |-> b.exh, idx |-> b.idx, env |-> env_key, key |-> b.key,
              calls |-> b.calls, next |-> b.next]

\* The remote call of request r returns or raises, and the request runs up to
\* its next remote call or to its end.
ConcAttempt(r, label) ==
    /\ reqs[r].pc = "calling"
    /\ LET q == reqs[r]
           class == ClassOf(q.site)
           h == ConcHandle(r, label)
           goes == h.next = "continue"
       IN  /\ exhausted_keys' = h.exh
           /\ current_indices' = h.idx
           /\ env_key' = h.env
           /\ last' = LastOf(h.calls, class, current_indices[class])
           /\ reqs' = [reqs EXCEPT ![r] =
                  IF goes
                  THEN [q EXCEPT !.attempt = @ + 1, !.key = h.key]
                  ELSE Idle(q.site)]
    /\ UNCHANGED <<google_keys, anam_keys, elevenlabs_keys, now, marked,
                   shadow_exhausted, shadow_indices, shadow_ret, pure, agent, anam,
                   chat, store>>

NextConc ==
    \/ \E r \in Requests : ConcStart(r)
    \/ \E r \in Requests : \E label \in Labels : ConcAttempt(r, label)

SpecConc == InitConc /\ [][NextConc]_vars

(***************************************************************************)
(* Claims about requests handled concurrently.                             *)
(***************************************************************************)

\* The requests whose remote call is in progress.
InFlight == {r \in Requests : reqs[r].pc = "calling"}

\* Request r holds a secret that get_key handed out: always at the Anam call
\* site, from the first rotation on in run_agent.
Handed(r) ==
    /\ r \in InFlight
    /\ reqs[r].site = "anam" \/ reqs[r].attempt >= 1

\* The positions of a class's pool, counted from 0 as the code does.
Positions(c) == 0..(Len(KeysOf(c)) - 1)

\* C22: however the steps of concurrently handled requests interleave, the
\* cursor of every class stays in [0, count) (0 for an empty pool), get_key
\* reads the cursor inside the pool and the position it takes the secret from
\* is inside the pool, and the value it returns is a member of the class's pool
\* that is available at that moment.
C22_SafeUnderInterleaving ==
    /\ \A c \in Classes :
          current_indices[c] \in (IF KeysOf(c) = << >> THEN {0} ELSE Positions(c))
    /\ (last.op = "get_key" /\ last.ret # None) =>
          /\ last.start_index \in Positions(last.key_type)
          /\ \E index \in Positions(last.key_type) :
                /\ KeysOf(last.key_type)[index + 1] = last.ret
                /\ current_indices[last.key_type]
                       = (index + 1) % Len(KeysOf(last.key_type))
          /\ last.ret \in PoolSet(last.key_type)
          /\ KeyAvailableIn(exhausted_keys, last.key_type, last.ret, now)
    /\ \A r \in Requests : Handed(r) => reqs[r].key \in PoolSet(ClassOf(reqs[r].site))

\* Two requests are in flight, one of them on a secret that get_key handed out
\* after the other requests' failures took secrets out of the pool.
C22_Witness ==
    /\ Cardinality(InFlight) >= 2
    /\ last.op = "get_key"
    /\ last.ret # None
    /\ \E r \in InFlight : Handed(r) /\ reqs[r].key = last.ret /\ reqs[r].attempt >= 1
    /\ DOMAIN exhausted_keys[last.key_type] # {}

\* The latest call of the manager is a get_key that handed out a secret.
JustHanded == last.op = "get_key" /\ last.ret # None

\* A step in which a request calls get_key, reads the cursor value that the
\* latest get_key read, and is handed the secret that call returned.
SameReadSameSecret ==
    /\ \E r \in Requests :
          \/ reqs[r].site = "anam" /\ ConcStart(r)
          \/ \E label \in Labels :
                /\ ConcAttempt(r, label)
                /\ \E i \in DOMAIN ConcHandle(r, label).calls :
                      ConcHandle(r, label).calls[i].op = "get_key"
    /\ last'.op = "get_key"
    /\ last'.key_type = last.key_type
    /\ last'.start_index = last.start_index
    /\ last'.ret = last.ret

C23_State ==
    (JustHanded /\ current_indices[last.key_type] = last.start_index)
        => AvailableSet(last.key_type) = {last.ret}

C23_Step ==
    (JustHanded /\ SameReadSameSecret)
        => /\ current_indices[last.key_type] = last.start_index
           /\ AvailableSet(last.key_type)' = {last.ret}

MarkedBy(r, label) ==
    {ConcHandle(r, label).calls[i].key :
        i \in {j \in DOMAIN ConcHandle(r, label).calls :
                  ConcHandle(r, label).calls[j].op = "mark_exhausted"}}

\* C24: in run_agent, also with several chat requests in progress, the secret
\* passed to mark_exhausted after a classified failure is the secret that was
\* installed when the failing remote call started.
C24_MarksTheFailedSecret ==
    [][\A r \in Requests : \A label \in Labels :
          (reqs[r].site = "agent" /\ reqs[r].key # None /\ ConcAttempt(r, label))
              => MarkedBy(r, label) \subseteq {reqs[r].key}]_vars

(***************************************************************************)
(* Claims about the records and the report of the manager.                 *)
(***************************************************************************)

\* The secrets of class c that have an exhaustion record.
Recorded(c) == DOMAIN exhausted_keys[c]

C25_State ==
    /\ \A c \in KeyTypes : \A k \in Recorded(c) :
          /\ exhausted_keys[c][k] <= now
          /\ now - exhausted_keys[c][k] > cooldown_period
                => KeyAvailableIn(exhausted_keys, c, k, now)
    /\ last.op = "mark_exhausted" =>
          /\ last.key \in Recorded(last.key_type)
          /\ exhausted_keys[last.key_type][last.key] = now

C25_Step ==
    /\ now' >= now
    /\ \A c \in KeyTypes : \A k \in Recorded(c) :
          /\ k \in Recorded(c)'
          /\ exhausted_keys'[c][k] >= exhausted_keys[c][k]

\* C25: once mark_exhausted has written a record for (class, secret), every
\* later state holds a record for it, and as the clock never goes back its
\* timestamp never decreases; a record older than the cooldown is still there
\* and the secret counts as available.
C25_RecordsNeverRemoved == [](C25_State) /\ [][C25_Step]_vars

\* get_key has handed out again a secret whose record is older than the
\* cooldown, and the record is still there.
C25_Witness ==
    /\ last.op = "get_key"
    /\ last.ret # None
    /\ last.ret \in Recorded(last.key_type)
    /\ now - exhausted_keys[last.key_type][last.ret] > cooldown_period

\* The values of m successive get_key calls on class c from the cursors idx,
\* with the records and the clock as they are: no mark, no cooldown expiry.
RECURSIVE Rets(_, _, _)
Rets(c, idx, m) ==
    IF m = 0 THEN << >>
    ELSE LET g == GetKeyOn(exhausted_keys, idx, c)
         IN  <<g.ret>> \o Rets(c, g.indices, m - 1)

\* How many of the first m values of rets are k.
Selections(rets, m, k) == Cardinality({i \in 1..m : rets[i] = k})

\* C26: while the set H of available secrets of a class stays the same and is
\* not empty, any |H| successive get_key calls succeed and return every secret
\* of H exactly once, so that after any number of calls the numbers of
\* selections of two healthy secrets differ by at most 1.
C26_EvenSpread ==
    \A c \in Classes :
        LET H == AvailableSet(c)
            n == Cardinality(H)
            rets == Rets(c, current_indices, 2 * n)
        IN  H # {} =>
               /\ \A from \in 1..(n + 1) :
                     {rets[i] : i \in from..(from + n - 1)} = H
               /\ \A m \in 0..(2 * n) : \A a, b \in H :
                     Selections(rets, m, a) - Selections(rets, m, b) \in {-1, 0, 1}

\* A pool of three secrets of which one is cooling down, its cursor not at the
\* start, just after a get_key call: the two healthy secrets take turns.
C26_Witness ==
    /\ last.op = "get_key"
    /\ last.ret # None
    /\ Len(KeysOf(last.key_type)) = 3
    /\ Cardinality(AvailableSet(last.key_type)) = 2
    /\ current_indices[last.key_type] # 0
    /\ Rets(last.key_type, current_indices, 2)[2] = last.ret

\* The pool secrets of class c with a record not older than the cooldown.
CoolingDown(c) ==
    {k \in PoolSet(c) :
        k \in Recorded(c) /\ now - exhausted_keys[c][k] <= cooldown_period}

\* The counts of a report add up, and are the counts of the manager's state.
AddsUp(report) ==
    \A c \in Classes :
        /\ report[c].total = report[c].available + report[c].cooling_down
                                 + report[c].exhausted
        /\ report[c].total = Len(KeysOf(c))
        /\ report[c].cooling_down = Cardinality(CoolingDown(c))
        /\ report[c].exhausted = 0

\* C27: in every reachable state the report of get_status satisfies, for each
\* class, total = available + cooling_down + exhausted, with total the size of
\* the pool, cooling_down the number of pool secrets with a record not older
\* than the cooldown, and exhausted 0; so does the report a get_status call
\* has just returned.
C27_StatusAddsUp ==
    /\ AddsUp(StatusOn(exhausted_keys))
    /\ last.op = "get_status" => AddsUp(last.ret)

\* get_status has reported a class with a secret in cooldown, a secret whose
\* record is older than the cooldown, and a secret never marked.
C27_Witness ==
    /\ last.op = "get_status"
    /\ \E c \in Classes :
          /\ last.ret[c].cooling_down >= 1
          /\ (PoolSet(c) \cap Recorded(c)) \ CoolingDown(c) # {}
          /\ PoolSet(c) \ Recorded(c) # {}

(***************************************************************************)
(* Claim about the responses get_anam_session does not list.               *)
(***************************************************************************)

\* The responses whose status is none of 200, 429, 503, 401, 403.
Unlisted ==
    {o \in AnamOutcomes :
        o.kind = "response" /\ o.status \notin {200, 429, 503, 401, 403}}

\* C28: in get_anam_session a response whose status is not 200, 429, 503, 401
\* or 403 is not retried and marks no key: the request ends with an HTTP error
\* of that response's status code, whatever the text of the response.
C28_UnlistedStatusEnds ==
    [][\A o \in Unlisted :
          AnamAttempt(o) =>
              /\ anam'.pc = "done"
              /\ anam'.result \in {"raised", "http_error"}
              /\ anam'.status = o.status
              /\ anam'.calls = anam.calls
              /\ exhausted_keys' = exhausted_keys]_vars

(***************************************************************************)
(* The rate limiter at the head of the /chat endpoint. A request reads the *)
(* clock and _last_request_time, sleeps for what is missing of the         *)
(* interval, and writes _last_request_time when it goes on to the agent.   *)
(* The sleep is an await: other requests run during it. Time is in whole   *)
(* seconds; asyncio.sleep returns at its time or later.                    *)
(***************************************************************************)

\* _MIN_REQUEST_INTERVAL
MIN_REQUEST_INTERVAL == 2

\* The seconds the clock runs after the start of the server.
MaxSeconds == 4

\* The clock when the first request comes: _last_request_time is 0 and
\* time.time() is far above the interval.
ChatEpoch == MIN_REQUEST_INTERVAL

\* Server start. sleeping[r] is the time request r's sleep ends (None: r is
\* not in the limiter); latest and previous are the times of the last two
\* requests that went past the limiter.
InitChat ==
    /\ google_keys = << >>
    /\ anam_keys = << >>
    /\ elevenlabs_keys = << >>
    /\ exhausted_keys = [c \in KeyTypes |-> << >>]
    /\ current_indices = [c \in Classes |-> 0]
    /\ now = ChatEpoch
    /\ last = NoCall
    /\ marked = [c \in KeyTypes |-> << >>]
    /\ shadow_exhausted = [c \in KeyTypes |-> << >>]
    /\ shadow_indices = [c \in Classes |-> 0]
    /\ shadow_ret = None
    /\ pure = Off
    /\ env_key = None
    /\ agent = Off
    /\ anam = Off
    /\ reqs = Off
    /\ store = Off
    /\ chat = [pc |-> "on", last_request_time |-> 0,
               sleeping |-> [r \in Requests |-> None],
               latest |-> None, previous |-> None]

\* _last_request_time = time.time(), and on to the agent.
Proceed(c) ==
    [c EXCEPT !.last_request_time = now, !.previous = c.latest, !.latest = now]

\* A /chat request comes in: it goes on at once when the interval has passed
\* since _last_request_time, and sleeps for the rest of the interval otherwise.
ChatArrive(r) ==
    /\ chat.sleeping[r] = None
    /\ LET current_time == now
           time_since_last == current_time - chat.last_request_time
           wait_time == MIN_REQUEST_INTERVAL - time_since_last
       IN  chat' = IF time_since_last < MIN_REQUEST_INTERVAL
                   THEN [chat EXCEPT !.sleeping[r] = current_time + wait_time]
                   ELSE Proceed(chat)
    /\ UNCHANGED <<google_keys, anam_keys, elevenlabs_keys, exhausted_keys,
                   current_indices, now, history, pure, env_key, agent, anam,
                   reqs, store>>

\* The sleep of request r is over: the request goes on.
ChatWake(r) ==
    /\ chat.sleeping[r] # None
    /\ now >= chat.sleeping[r]
    /\ chat' = [Proceed(chat) EXCEPT !.sleeping[r] = None]
    /\ UNCHANGED <<google_keys, anam_keys, elevenlabs_keys, exhausted_keys,
                   current_indices, now, history, pure, env_key, agent, anam,
                   reqs, store>>

\* A second passes.
ChatElapse ==
    /\ now < ChatEpoch + MaxSeconds
    /\ now' = now + 1
    /\ UNCHANGED <<google_keys, anam_keys, elevenlabs_keys, exhausted_keys,
                   current_indices, history, callers, extras>>

NextChat ==
    \/ \E r \in Requests : ChatArrive(r)
    \/ \E r \in Requests : ChatWake(r)
    \/ ChatElapse

SpecChat == InitChat /\ [][NextChat]_vars

\* C29: any two /chat requests that go past the rate limiter do so at least
\* _MIN_REQUEST_INTERVAL seconds apart, also when several requests are in the
\* limiter's sleep at the same time.
C29_IntervalKept ==
    chat.previous # None => chat.latest - chat.previous >= MIN_REQUEST_INTERVAL

(***************************************************************************)
(* The in-memory notification store. A notification is kept with the       *)
(* number of the _add_notification call of its user that made it (serial;  *)
(* it stands for the id and created_at of the code, which come from the    *)
(* clock) and its is_read flag. A user with no entry in the dictionary and *)
(* a user with an empty list are the same user here. No operation on the   *)
(* store awaits, so every operation is one step.                           *)
(***************************************************************************)

\* The length _add_notification cuts a list to.
MaxNotifications == 50

\* The notifications a user receives beyond a full list.
MaxExtra == 3

Users == {"elder", "family"}

\* The notifications a user receives in a behaviour: one user enough to fill
\* the list and go on, the other a few.
Inflow(user_id) ==
    IF user_id = "elder" THEN MaxNotifications + MaxExtra ELSE MaxExtra

Hours == 0..23

InitStore ==
    /\ google_keys = << >>
    /\ anam_keys = << >>
    /\ elevenlabs_keys = << >>
    /\ exhausted_keys = [c \in KeyTypes |-> << >>]
    /\ current_indices = [c \in Classes |-> 0]
    /\ now = 0
    /\ last = NoCall
    /\ marked = [c \in KeyTypes |-> << >>]
    /\ shadow_exhausted = [c \in KeyTypes |-> << >>]
    /\ shadow_indices = [c \in Classes |-> 0]
    /\ shadow_ret = None
    /\ pure = Off
    /\ env_key = None
    /\ agent = Off
    /\ anam = Off
    /\ reqs = Off
    /\ chat = Off
    /\ store = [pc |-> "on", lists |-> [u \in Users |-> << >>]]

\* The serial of the next notification of a list.
NextSerial(list) == IF list = << >> THEN 1 ELSE list[1].serial + 1

\* list[:MaxNotifications]
Head50(list) ==
    IF Len(list) <= MaxNotifications THEN list ELSE SubSeq(list, 1, MaxNotifications)

\* A slip in _add_notification: the notification is appended.
add_notification_Append(list) ==
    Head50(list \o <<[serial |-> Len(list) + 1, is_read |-> FALSE]>>)

\* _add_notification on the list of a user: insert(0, notification), then
\* keep the first 50.
add_notification(list) ==
    Head50(<<[serial |-> NextSerial(list), is_read |-> FALSE]>> \o list)

\* n calls of _add_notification in a row
RECURSIVE AddMany(_, _)
AddMany(list, n) == IF n = 0 THEN list ELSE AddMany(add_notification(list), n - 1)

\* How many notifications trigger_demo_notifications adds at an hour of the day.
DemoCount(hour) ==
    IF 5 <= hour /\ hour < 12 THEN (IF hour < 9 THEN 3 ELSE 2)
    ELSE IF 12 <= hour /\ hour < 17 THEN (IF hour = 14 THEN 3 ELSE 2)
    ELSE IF 17 <= hour /\ hour < 21 THEN (IF hour >= 20 THEN 3 ELSE 2)
    ELSE 2

StoreFrame ==
    UNCHANGED <<google_keys, anam_keys, elevenlabs_keys, exhausted_keys,
                current_indices, now, history, callers, reqs, chat>>

\* POST /api/notifications/{user_id}/create
CreateNotification(user_id) ==
    /\ store.pc = "on"
    /\ NextSerial(store.lists[user_id]) <= Inflow(user_id)
    /\ store' = [store EXCEPT !.lists[user_id] = add_notification(@)]
    /\ StoreFrame

\* POST /api/notifications/{user_id}/demo
TriggerDemo(user_id, hour) ==
    /\ store.pc = "on"
    /\ NextSerial(store.lists[user_id]) + DemoCount(hour) - 1 <= Inflow(user_id)
    /\ store' = [store EXCEPT !.lists[user_id] = AddMany(@, DemoCount(hour))]
    /\ StoreFrame

\* POST /api/notifications/{notification_id}/dismiss, the id being that of the
\* notification with this serial of this user: the first notification with
\* the id is marked read; nothing happens when there is none.
DismissNotification(user_id, serial) ==
    /\ store.pc = "on"
    /\ store' = [store EXCEPT !.lists[user_id] =
          [i \in DOMAIN @ |->
              IF @[i].serial = serial THEN [@[i] EXCEPT !.is_read = TRUE] ELSE @[i]]]
    /\ StoreFrame

\* POST /api/notifications/{user_id}/read-all
MarkAllRead(user_id) ==
    /\ store.pc = "on"
    /\ store' = [store EXCEPT !.lists[user_id] =
          [i \in DOMAIN @ |-> [@[i] EXCEPT !.is_read = TRUE]]]
    /\ StoreFrame

\* The ids a dismiss is sent with: the oldest notification of a list, and an
\* id that no notification has.
Dismissable(user_id) ==
    {0} \cup (IF store.lists[user_id] = << >> THEN {}
              ELSE {store.lists[user_id][Len(store.lists[user_id])].serial})

NextStore ==
    \/ \E u \in Users : CreateNotification(u)
    \/ \E u \in Users : \E hour \in Hours : TriggerDemo(u, hour)
    \/ \E u \in Users : \E serial \in Dismissable(u) : DismissNotification(u, serial)
    \/ \E u \in Users : MarkAllRead(u)

SpecStore == InitStore /\ [][NextStore]_vars

\* The serials of a list, in the order of the list.
Serials(list) == [i \in DOMAIN list |-> list[i].serial]

\* What k additions make of the serials of a list: the k new ones in front,
\* newest first, then the old ones, the oldest dropped beyond 50.
Added(list, k) ==
    LET top == NextSerial(list) + k - 1
        n == IF Len(list) + k <= MaxNotifications
             THEN Len(list) + k ELSE MaxNotifications
    IN  [i \in 1..n |-> top - i + 1]

C30_State ==
    \A u \in Users :
        LET list == store.lists[u] IN
        /\ Len(list) <= MaxNotifications
        /\ \A i \in 1..(Len(list) - 1) : list[i].serial > list[i + 1].serial

C30_Step ==
    \A u \in Users :
        LET list == store.lists[u]
            after == store'.lists[u]
        IN  \/ /\ Serials(after) = Serials(list)
               /\ \A i \in DOMAIN list : list[i].is_read => after[i].is_read
            \/ \E k \in 1..3 :
                  /\ Serials(after) = Added(list, k)
                  /\ \A i \in 1..k : ~after[i].is_read
                  /\ \A i \in (k + 1)..Len(after) : after[i] = list[i - k]

\* C30: after any sequence of create, demo, dismiss and read-all every user's
\* list holds at most 50 notifications, newest first; dismiss and read-all
\* remove and move nothing; an addition puts the new notifications in front
\* and leaves the others as they are, one place further for each new one, so
\* that one addition to a full list drops the oldest and no other.
C30_NewestFifty == [](C30_State) /\ [][C30_Step]_vars

\* A full list has received one more notification after its oldest one was
\* dismissed: the dismissed one is gone, the list is still full, and some of
\* its notifications are read.
C30_Witness ==
    LET list == store.lists["elder"] IN
    /\ Len(list) = MaxNotifications
    /\ list[1].serial = MaxNotifications + 1
    /\ list[MaxNotifications].is_read
    /\ ~list[1].is_read
    /\ store.lists["family"] # << >>

====
